---- MODULE Spec2Model ----
(***************************************************************************)
(* Registration orchestration of kiro-account-farm: the batch             *)
(* orchestrator (batchRegister), the per-input Worker                      *)
(* (processEmailWorker), the Session (registrationWorker) with its         *)
(* registry (SessionManager), the Proxy Selector (services/proxy.ts) and   *)
(* the interrupt handlers installed by batchRegister.                      *)
(***************************************************************************)
EXTENDS Integers, Sequences, FiniteSets, TLC

\* ------------------------------------------------------------------------
\* Bounds of the model
\* ------------------------------------------------------------------------
\* largest countPerEmail of a batch with a single base input
MaxCount == 2
\* largest number of base inputs (Workers); such a batch has countPerEmail 1
MaxInputs == 2
\* largest number of signal / fault events delivered to one process
MaxEvents == 2
\* number of concurrent callers of the Proxy Selector
MaxCallers == 2
\* largest maxAttempts a caller passes to getNextValidProxy
MaxAttemptsArg == 2
\* number of ports the counter may advance beyond the base port
MaxPorts == 2
\* number of distinct IPs the fraud check reports
MaxIps == 2
\* number of distinct verification codes the mail backend yields
MaxCodes == 2
\* largest maxAttempts passed to fetchOtp
MaxOtpAttempts == 3
\* length of the longest URL
MaxUrlLen == 2
\* number of processPage calls of a session
MaxCalls == 2
\* number of iterations of the polling loop its observer follows
MaxObserved == 42
\* number of iterations of the polling loop its examiner follows
MaxChecked == 2
\* number of iterations on the verification page the examiner follows
MaxVerified == 7
\* largest timeoutMs of a pollToken call, in poll intervals
MaxTimeout == 4
\* longest time a token request takes, in poll intervals
MaxLatency == 2

\* ------------------------------------------------------------------------
\* Program constants
\* ------------------------------------------------------------------------
maxRetries == 3
FRAUD_SCORE_THRESHOLD == 30
\* getBasePort without PROXY_BASE_PORT
BasePort == 10000

null == "null"

VARIABLES
    cfg,            \* configuration and inputs of the run (fixed after Init)
    bpc,            \* position of batchRegister
    finalProgress,  \* the BatchProgress batchRegister returns
    sessions,       \* SessionManager.sessions: id -> SessionState
    wpc,            \* position of each Worker / of its current Session
    acct,           \* loop variable i of processEmailWorker
    retryCount,     \* retryCount of processEmailWorker (0 outside the retry loop)
    browserId,      \* browserId of processEmailWorker ("" when none)
    accountProxy,   \* accountProxy of processEmailWorker (null outside an iteration)
    nextId,         \* number of sessions each Worker has created
    cur,            \* sessionState.id of the running registrationWorker
    browser,        \* local variable browser of registrationWorker
    localSession,   \* local variable localSession of registrationWorker
    rwErr,          \* the exception registrationWorker is handling
    opened,         \* the running registrationWorker opened/launched a browser
    closeCalled,    \* the running registrationWorker has called a close
    roxyOpen,       \* Roxy backend: the window of the Worker's profile is open
    activeSessions, \* browser-local.ts activeSessions (launched, not closed)
    isCleaningUp,   \* the guard of the interrupt handlers
    cleanupPc,      \* position of cleanup: "idle", "closing", "exited"
    closing,        \* the local sessions closeAllLocalBrowsers is closing
    exportedFile,   \* the results cleanup's exportResults handed to Bun.write
    written,        \* the results whose write to the output file has finished
    cleanupRuns,    \* number of times cleanup was entered
    nEvents,        \* number of signal / fault events delivered
    exited,         \* process.exit was called
    proxyHost,      \* Bun.env.PROXY_HOST is set
    portCounter,    \* proxy.ts portCounter (null before initPortCounter)
    portStateFile,  \* the number in .proxy-port-state (null: no usable file)
    usedIpsSet,     \* proxy.ts usedIpsSet
    usedIpsInitialized, \* proxy.ts usedIpsInitialized
    usedIpsFile,    \* the IPs listed in .proxy-used-ips
    cpc,            \* position of each caller of the Proxy Selector
    attempt,        \* loop variable attempt of getNextValidProxy
    maxAttemptsArg, \* argument maxAttempts of getNextValidProxy
    candidate,      \* proxy.port of the candidate being checked
    returned,       \* what the call returned (pending while it runs)
    advanced,       \* how often the running call has raised portCounter
    handedOut,      \* how often each IP was returned since the last reset
    refused,        \* the IPs a candidate was skipped for as already used, since then
    otpCall,        \* the arguments of the running fetchOtp call
    otpPc,          \* position of fetchOtp and of the retriever it dispatched to
    otpAttempt,     \* loop variable attempt of the retriever
    otpLog,         \* the observer calls and the polls of the call, in order
    otpResult,      \* the OTPFetchResult the call returned
    page,           \* the page shown: the indicators in its URL and in its DOM
    pageType,       \* what detectPageType returned for it ("none" before)
    processedPages, \* ctx.processedPages of the session's PageAutomationContext
    performed,      \* the page ids whose action succeeded since the set was last cleared
    ppCalls,        \* number of processPage calls of the session
    ppLast,         \* the last processPage call: page id, handler run or not, result
    lowBandwidth,   \* config LOW_BANDWIDTH
    attempts,       \* local variable attempts of the polling loop
    lastPageType,   \* local variable lastPageType of the polling loop
    verificationMessageShown, \* local variable of the polling loop
    otpRetryCount,  \* local variable otpRetryCount of the polling loop
    stuckPageCount, \* local variable stuckPageCount of the polling loop
    pollPc,         \* position of the polling loop: "idle", "loop", "complete", "threw"
    pollErr,        \* the message of the error the polling loop threw
    polled,         \* number of processPage calls the polling loop has made
    reloaded,       \* the last iteration called page.reload
    otpExhausted,   \* a fetchOtp of the polling loop has returned without a code
    prevType,       \* the classification of the iteration before
    sameCount,      \* number of consecutive iterations that gave prevType
    iter,           \* what happened in the last iteration, as its examiner saw it
    oidcClient,     \* AWSDeviceAuthClient: is clientInfo set, is authInfo set
    oidcPc,         \* the client's caller: "idle", "polling", "waiting", "returned", "threw"
    oidcOut,        \* what the last call of the client returned or threw
    pollTimeout,    \* pollToken: timeoutMs, in poll intervals
    pollElapsed,    \* pollToken: Date.now() - startTime, in poll intervals
    pollSent,       \* pollToken: number of getToken calls it has made
    cookiePopupHandled, \* ctx.cookiePopupHandled
    cookieTried,    \* how often the session has looked for the cookie banner
    portLog         \* the ports handed out since portCounter was last loaded or reset

batchVars == <<cfg, bpc, finalProgress, sessions, wpc, acct, retryCount,
               browserId, accountProxy, nextId, cur, browser, localSession,
               rwErr, opened, closeCalled, roxyOpen, activeSessions>>

\* state of the interrupt handlers
sigVars == <<isCleaningUp, cleanupPc, closing, exportedFile, written,
             cleanupRuns, nEvents, exited>>

\* state of the Proxy Selector and of its callers
proxyVars == <<proxyHost, portCounter, portStateFile, usedIpsSet,
               usedIpsInitialized, usedIpsFile, cpc, attempt, maxAttemptsArg,
               candidate, returned, advanced, handedOut, refused, portLog>>

\* state of the OTP retriever
otpVars == <<otpCall, otpPc, otpAttempt, otpLog, otpResult>>

\* state of the page classifier
pageVars == <<page, pageType, processedPages, performed, ppCalls, ppLast>>

\* state of the polling loop of registrationWorker
pollVars == <<lowBandwidth, attempts, lastPageType, verificationMessageShown,
              otpRetryCount, stuckPageCount, pollPc, pollErr, polled, reloaded,
              otpExhausted>>

\* what an observer of the polling loop remembers of its classifications
stuckObs == <<prevType, sameCount>>

loopVars == <<pollVars, stuckObs, iter>>

\* state of the OIDC client and of a pollToken call
oidcVars == <<oidcClient, oidcPc, oidcOut, pollTimeout, pollElapsed, pollSent>>

\* the cookie banner of a session
cookieVars == <<cookiePopupHandled, cookieTried>>

\* state of the registration flow's helpers
flowVars == <<otpVars, pageVars, loopVars, oidcVars, cookieVars>>

vars == <<batchVars, sigVars, proxyVars, flowVars>>

Workers == 0 .. (cfg.nInputs - 1)
AllWorkers == 0 .. (MaxInputs - 1)

TokenStatuses == {"valid", "suspended", "expired", "invalid", "error"}
Terminal == {"completed", "error"}

\* concurrent callers of the Proxy Selector and the exit IPs the fraud check reports
Callers == 1 .. MaxCallers
Ips == 1 .. MaxIps

\* ------------------------------------------------------------------------
\* Session registry (session.ts)
\* ------------------------------------------------------------------------
\* createSession (free function): a fresh pending session
createSession(account) ==
    [status |-> "pending", account |-> account,
     token |-> FALSE, tokenStatus |-> null, error |-> null]

\* SessionManager.updateSession: merge the updates into the stored session;
\* an unknown id leaves the registry as it is
updateSession(reg, id, updates) ==
    IF id \notin DOMAIN reg THEN reg
    ELSE [reg EXCEPT ![id] =
            [f \in DOMAIN reg[id] |->
                IF f \in DOMAIN updates THEN updates[f] ELSE reg[id][f]]]

getSessionsByStatus(reg, status) == {id \in DOMAIN reg : reg[id].status = status}
getCompletedCount(reg) == Cardinality(getSessionsByStatus(reg, "completed"))
getFailedCount(reg) == Cardinality(getSessionsByStatus(reg, "error"))
getRunningCount(reg) ==
    Cardinality(getSessionsByStatus(reg, "running"))
        + Cardinality(getSessionsByStatus(reg, "polling_token"))

\* orchestrator.ts getProgress
getProgress(reg, totalTarget) ==
    LET completed == getCompletedCount(reg)
        failed == getFailedCount(reg)
        running == getRunningCount(reg)
    IN [totalTarget |-> totalTarget,
        totalRegistered |-> completed,
        totalFailed |-> failed,
        status |-> IF running > 0 THEN "running"
                   ELSE IF completed + failed = totalTarget /\ totalTarget > 0
                        THEN "completed" ELSE "idle",
        sessions |-> reg]

totalAccounts == cfg.nInputs * cfg.countPerEmail

\* ------------------------------------------------------------------------
\* Init
\* ------------------------------------------------------------------------
Configs ==
    { c \in [BROWSER_MODE : {"roxy", "local"},
             useEnvProxy : BOOLEAN,
             SKIP_PROXY_CHECK : BOOLEAN,
             provider : {"gmail", "mailtm", "freemail"},
             nInputs : 1 .. MaxInputs,
             countPerEmail : 1 .. MaxCount] :
        /\ (c.nInputs > 1 => c.countPerEmail = 1)
        /\ (~c.useEnvProxy => ~c.SKIP_PROXY_CHECK) }

InitBatch ==
    /\ cfg \in Configs
    /\ bpc = "health"
    /\ finalProgress = null
    /\ sessions = << >>
    /\ wpc = [w \in AllWorkers |-> "idle"]
    /\ acct = [w \in AllWorkers |-> 1]
    /\ retryCount = [w \in AllWorkers |-> 0]
    /\ browserId = [w \in AllWorkers |-> ""]
    /\ accountProxy = [w \in AllWorkers |-> null]
    /\ nextId = [w \in AllWorkers |-> 0]
    /\ cur = [w \in AllWorkers |-> null]
    /\ browser = [w \in AllWorkers |-> null]
    /\ localSession = [w \in AllWorkers |-> null]
    /\ rwErr = [w \in AllWorkers |-> null]
    /\ opened = [w \in AllWorkers |-> FALSE]
    /\ closeCalled = [w \in AllWorkers |-> FALSE]
    /\ roxyOpen = [w \in AllWorkers |-> FALSE]
    /\ activeSessions = {}


\* ------------------------------------------------------------------------
\* batchRegister (orchestrator.ts 224-345)
\* ------------------------------------------------------------------------
Live == ~exited

\* a batch that goes on whatever checkHealth answered
HealthIgnored(isHealthy) == "clean"

\* lines 281-284: `if (!isHealthy) throw new Error(...)`
HealthChecked(isHealthy) == IF isHealthy THEN "clean" ELSE "failed"

\* checkHealth: in roxy mode an unreachable backend fails the whole batch
CheckHealth(isHealthy) ==
    /\ Live /\ bpc = "health"
    /\ bpc' = IF cfg.BROWSER_MODE = "roxy"
              THEN HealthChecked(isHealthy)
              ELSE "running"
    /\ UNCHANGED <<cfg, finalProgress, sessions, wpc, acct, retryCount,
                   browserId, accountProxy, nextId, cur, browser, localSession,
                   rwErr, opened, closeCalled, roxyOpen, activeSessions, sigVars, proxyVars, flowVars>>

\* deleteAllBrowserProfiles: closes every browser, deletes every profile;
\* its own failures are swallowed
CleanProfiles ==
    /\ Live /\ bpc = "clean"
    /\ bpc' = "running"
    /\ roxyOpen' = [w \in AllWorkers |-> FALSE]
    /\ UNCHANGED <<cfg, finalProgress, sessions, wpc, acct, retryCount,
                   browserId, accountProxy, nextId, cur, browser, localSession,
                   rwErr, opened, closeCalled, activeSessions, sigVars, proxyVars, flowVars>>

\* baseInputs.map(...): Worker inputIndex starts after sleep(inputIndex * staggerDelay)
StartWorker(w) ==
    /\ Live /\ bpc = "running" /\ w \in Workers /\ wpc[w] = "idle"
    /\ \A v \in Workers : v < w => wpc[v] # "idle"
    /\ wpc' = [wpc EXCEPT ![w] =
                 IF cfg.BROWSER_MODE = "roxy" THEN "profile" ELSE "account"]
    /\ UNCHANGED <<cfg, bpc, finalProgress, sessions, acct, retryCount,
                   browserId, accountProxy, nextId, cur, browser, localSession,
                   rwErr, opened, closeCalled, roxyOpen, activeSessions, sigVars, proxyVars, flowVars>>

WorkerSettled(w) == wpc[w] \in {"done", "threw"}

\* Promise.all in the place of Promise.allSettled: the first rejection settles it
AllOrFirstRejected(ws) ==
    \/ \A w \in ws : WorkerSettled(w)
    \/ \E w \in ws : wpc[w] = "threw"

\* line 338: Promise.allSettled(workers) is settled
AllSettled(ws) == \A w \in ws : WorkerSettled(w)

\* await Promise.allSettled(workers); return getProgress(...)
BatchReturn ==
    /\ Live /\ bpc = "running"
    /\ AllSettled(Workers)
    /\ bpc' = "returned"
    /\ finalProgress' = getProgress(sessions, totalAccounts)
    /\ UNCHANGED <<cfg, sessions, wpc, acct, retryCount,
                   browserId, accountProxy, nextId, cur, browser, localSession,
                   rwErr, opened, closeCalled, roxyOpen, activeSessions, sigVars, proxyVars, flowVars>>

\* ------------------------------------------------------------------------
\* processEmailWorker (orchestrator.ts 57-218)
\* ------------------------------------------------------------------------
At(w, p) == Live /\ w \in Workers /\ wpc[w] = p

\* a `continue` that leaves the for loop
ContinuePcEnds(w) == "done"
\* the for loop's `continue`: i++ and the loop test, without the pacing sleep
ContinuePc(w) == IF acct[w] < cfg.countPerEmail THEN "account" ELSE "done"
ContinueAcct(w) == IF acct[w] < cfg.countPerEmail THEN acct[w] + 1 ELSE acct[w]

\* the end of the for body: the pacing sleep when another account follows
EndBodyPc(w) == IF acct[w] < cfg.countPerEmail THEN "sleep" ELSE "done"

\* the pc after the proxy/reset steps of an iteration
AfterResetPc == IF cfg.provider \in {"mailtm", "freemail"} THEN "mailbox" ELSE "call"
AfterProxyPc(w) ==
    IF acct[w] > 1 /\ cfg.BROWSER_MODE = "roxy" THEN "reset" ELSE AfterResetPc

\* a profile name without the Worker's index
profileNameOfLabel(w) == "google-automation-input"

\* lines 73-75: profileName = DEFAULT_BROWSER_PROFILE-inputLabel-w<workerIndex>,
\* for base inputs that have the same label
profileName(w) == "google-automation-input-w" \o ToString(w)

\* getOrCreateBrowserProfile; on failure the Worker returns its empty results.
\* Roxy keeps one profile per window name (an existing one of that name is
\* deleted first): the dirId it answers is modelled by the name
CreateProfile(w, ok) ==
    /\ At(w, "profile")
    /\ wpc' = [wpc EXCEPT ![w] = IF ok THEN "account" ELSE "done"]
    /\ browserId' = [browserId EXCEPT ![w] = IF ok THEN profileName(w) ELSE ""]
    /\ UNCHANGED <<cfg, bpc, finalProgress, sessions, acct, retryCount,
                   accountProxy, nextId, cur, browser, localSession,
                   rwErr, opened, closeCalled, roxyOpen, activeSessions, sigVars, proxyVars, flowVars>>

\* top of iteration i: the account is generated and its proxy acquired;
\* `got` is what getNextValidProxy returned (getNextProxy never returns null
\* when a proxy host is configured)
AcquireProxy(w, got) ==
    /\ At(w, "account")
    /\ IF cfg.useEnvProxy /\ ~cfg.SKIP_PROXY_CHECK /\ ~got
       THEN /\ wpc' = [wpc EXCEPT ![w] = ContinuePc(w)]
            /\ acct' = [acct EXCEPT ![w] = ContinueAcct(w)]
            /\ UNCHANGED accountProxy
       ELSE /\ wpc' = [wpc EXCEPT ![w] = AfterProxyPc(w)]
            /\ accountProxy' = [accountProxy EXCEPT ![w] =
                                  IF cfg.useEnvProxy THEN "proxy" ELSE null]
            /\ UNCHANGED acct
    /\ retryCount' = [retryCount EXCEPT ![w] = 0]
    /\ UNCHANGED <<cfg, bpc, finalProgress, sessions,
                   browserId, nextId, cur, browser, localSession,
                   rwErr, opened, closeCalled, roxyOpen, activeSessions, sigVars, proxyVars, flowVars>>

\* resetBrowserProfile before every account after the first (roxy); it is
\* outside every try block, so a failure rejects the Worker
ResetProfile(w, ok) ==
    /\ At(w, "reset")
    /\ wpc' = [wpc EXCEPT ![w] = IF ok THEN AfterResetPc ELSE "threw"]
    /\ accountProxy' = [accountProxy EXCEPT ![w] = IF ok THEN accountProxy[w] ELSE null]
    /\ UNCHANGED <<cfg, bpc, finalProgress, sessions, acct, retryCount,
                   browserId, nextId, cur, browser, localSession,
                   rwErr, opened, closeCalled, roxyOpen, activeSessions, sigVars, proxyVars, flowVars>>

\* mailtm createSession / freemail generateMailbox; on failure `continue`
ProvisionMailbox(w, ok) ==
    /\ At(w, "mailbox")
    /\ wpc' = [wpc EXCEPT ![w] = IF ok THEN "call" ELSE ContinuePc(w)]
    /\ acct' = [acct EXCEPT ![w] = IF ok THEN acct[w] ELSE ContinueAcct(w)]
    /\ accountProxy' = [accountProxy EXCEPT ![w] = IF ok THEN accountProxy[w] ELSE null]
    /\ UNCHANGED <<cfg, bpc, finalProgress, sessions, retryCount,
                   browserId, nextId, cur, browser, localSession,
                   rwErr, opened, closeCalled, roxyOpen, activeSessions, sigVars, proxyVars, flowVars>>

\* head of a retry (retryCount > 0, proxies configured): a new proxy, or break
RetryProxy(w, got) ==
    /\ At(w, "retry")
    /\ IF ~cfg.SKIP_PROXY_CHECK /\ ~got
       THEN /\ wpc' = [wpc EXCEPT ![w] = EndBodyPc(w)]
            /\ accountProxy' = [accountProxy EXCEPT ![w] = null]
            /\ retryCount' = [retryCount EXCEPT ![w] = 0]
       ELSE /\ wpc' = [wpc EXCEPT ![w] =
                         IF cfg.BROWSER_MODE = "roxy" THEN "retryReset"
                         ELSE IF cfg.provider = "freemail" THEN "retryMailbox"
                         ELSE "call"]
            /\ accountProxy' = [accountProxy EXCEPT ![w] = "proxy"]
            /\ UNCHANGED retryCount
    /\ UNCHANGED <<cfg, bpc, finalProgress, sessions, acct,
                   browserId, nextId, cur, browser, localSession,
                   rwErr, opened, closeCalled, roxyOpen, activeSessions, sigVars, proxyVars, flowVars>>

\* resetBrowserProfile of a retry (roxy)
RetryReset(w, ok) ==
    /\ At(w, "retryReset")
    /\ wpc' = [wpc EXCEPT ![w] =
                 IF ~ok THEN "threw"
                 ELSE IF cfg.provider = "freemail" THEN "retryMailbox"
                 ELSE "call"]
    /\ accountProxy' = [accountProxy EXCEPT ![w] = IF ok THEN accountProxy[w] ELSE null]
    /\ retryCount' = [retryCount EXCEPT ![w] = IF ok THEN retryCount[w] ELSE 0]
    /\ UNCHANGED <<cfg, bpc, finalProgress, sessions, acct,
                   browserId, nextId, cur, browser, localSession,
                   rwErr, opened, closeCalled, roxyOpen, activeSessions, sigVars, proxyVars, flowVars>>

\* a new freemail mailbox for the retry; on failure break
RetryMailbox(w, ok) ==
    /\ At(w, "retryMailbox")
    /\ wpc' = [wpc EXCEPT ![w] = IF ok THEN "call" ELSE EndBodyPc(w)]
    /\ accountProxy' = [accountProxy EXCEPT ![w] = IF ok THEN accountProxy[w] ELSE null]
    /\ retryCount' = [retryCount EXCEPT ![w] = IF ok THEN retryCount[w] ELSE 0]
    /\ UNCHANGED <<cfg, bpc, finalProgress, sessions, acct,
                   browserId, nextId, cur, browser, localSession,
                   rwErr, opened, closeCalled, roxyOpen, activeSessions, sigVars, proxyVars, flowVars>>

\* the pacing sleep between accounts, then i++
Sleep(w) ==
    /\ At(w, "sleep")
    /\ wpc' = [wpc EXCEPT ![w] = "account"]
    /\ acct' = [acct EXCEPT ![w] = acct[w] + 1]
    /\ UNCHANGED <<cfg, bpc, finalProgress, sessions, retryCount,
                   browserId, accountProxy, nextId, cur, browser, localSession,
                   rwErr, opened, closeCalled, roxyOpen, activeSessions, sigVars, proxyVars, flowVars>>

\* ------------------------------------------------------------------------
\* AWSDeviceAuthClient (unnamed/part_002 50-199)
\* ------------------------------------------------------------------------
\* the client object: are clientInfo and authInfo set
Clients == [clientInfo : BOOLEAN, authInfo : BOOLEAN]
\* `new AWSDeviceAuthClient(proxy)`
NewClient == [clientInfo |-> FALSE, authInfo |-> FALSE]

RegisterFailedMsg == "Client registration failed"
AuthorizeFailedMsg == "Device authorization failed"
RegisterFirstMsg == "Please call registerClient() first"
QuickAuthFirstMsg == "Please call quickAuth() first"
TokenFailedMsg == "Token request failed"
PollTimeoutMsg == "Token polling timeout - authorization not completed"

\* what a call of the client did: the client after it, what it returned
\* ("client", "auth", "token", "null"; "" when it threw), the message of the
\* error it threw ("" when it returned), and the requests it sent
Outcome(c, result, error, sent) ==
    [client |-> c, result |-> result, error |-> error, sent |-> sent]
NoOutcome == Outcome(NewClient, "", "", << >>)

\* lines 62-89: registerClient; `ok` is response.ok
registerClient(c, ok) ==
    IF ok THEN Outcome([c EXCEPT !.clientInfo = TRUE], "client", "", <<"register">>)
    ELSE Outcome(c, "", RegisterFailedMsg, <<"register">>)

\* a deviceAuthorize without the test of clientInfo
deviceAuthorizeUnguarded(c, ok) ==
    IF ok THEN Outcome([c EXCEPT !.authInfo = TRUE], "auth", "", <<"authorize">>)
    ELSE Outcome(c, "", AuthorizeFailedMsg, <<"authorize">>)

\* lines 94-127: deviceAuthorize
deviceAuthorize(c, ok) ==
    IF ~c.clientInfo THEN Outcome(c, "", RegisterFirstMsg, << >>)
    ELSE IF ok THEN Outcome([c EXCEPT !.authInfo = TRUE], "auth", "", <<"authorize">>)
    ELSE Outcome(c, "", AuthorizeFailedMsg, <<"authorize">>)

\* lines 132-136: quickAuth; the second call is made when the first returned
quickAuth(c, registered, authorized) ==
    LET first == registerClient(c, registered)
        second == deviceAuthorize(first.client, authorized)
    IN IF first.error # "" THEN first
       ELSE [second EXCEPT !.sent = first.sent \o second.sent]

\* what the token endpoint answers: a token, authorization pending, or any
\* other response that is not ok
TokenResponses == {"token", "pending", "denied"}

\* lines 142-178: getToken (one request)
getToken(c, response) ==
    IF ~c.clientInfo \/ ~c.authInfo THEN Outcome(c, "", QuickAuthFirstMsg, << >>)
    ELSE IF response = "token" THEN Outcome(c, "token", "", <<"token">>)
    ELSE IF response = "pending" THEN Outcome(c, "null", "", <<"token">>)
    ELSE Outcome(c, "", TokenFailedMsg, <<"token">>)

\* a direct call of one of the methods, in any order
CallClient(out) ==
    /\ Live /\ oidcPc = "idle"
    /\ oidcClient' = out.client
    /\ oidcOut' = out
    /\ UNCHANGED <<oidcPc, pollTimeout, pollElapsed, pollSent>>
    /\ UNCHANGED <<batchVars, sigVars, proxyVars, otpVars, pageVars, loopVars, cookieVars>>

\* how a pollToken goes on after a getToken that took `latency` intervals
\* and the wait of one interval
AfterPoll(out, latency) ==
    /\ oidcOut' = out
    /\ pollSent' = pollSent + 1
    /\ IF out.error # "" THEN oidcPc' = "threw" /\ pollElapsed' = pollElapsed + latency
       ELSE IF out.result = "token"
       THEN oidcPc' = "returned" /\ pollElapsed' = pollElapsed + latency
       ELSE oidcPc' = "polling" /\ pollElapsed' = pollElapsed + latency + 1

\* a pollToken that polls once more when the timeout has just elapsed
PollTokenLate(timeout, response, latency) ==
    /\ Live
    /\ \/ oidcPc = "idle" /\ timeout \in 0 .. MaxTimeout /\ pollTimeout' = timeout
             /\ pollElapsed = 0 /\ pollSent = 0
       \/ oidcPc = "polling" /\ timeout = pollTimeout /\ UNCHANGED pollTimeout
    /\ latency \in 0 .. MaxLatency
    /\ IF pollElapsed <= timeout
       THEN AfterPoll(getToken(oidcClient, response), latency)
       ELSE /\ oidcOut' = Outcome(oidcClient, "", PollTimeoutMsg, << >>)
            /\ oidcPc' = "threw"
            /\ UNCHANGED <<pollElapsed, pollSent>>
    /\ UNCHANGED oidcClient
    /\ UNCHANGED <<batchVars, sigVars, proxyVars, otpVars, pageVars, loopVars, cookieVars>>

\* lines 183-198: pollToken is called (oidcPc idle) or resumes after its wait
\* (oidcPc polling): the loop test, then getToken, whose request takes
\* `latency` intervals
pollToken(timeout, response, latency) ==
    /\ Live
    /\ \/ oidcPc = "idle" /\ timeout \in 0 .. MaxTimeout /\ pollTimeout' = timeout
             /\ pollElapsed = 0 /\ pollSent = 0
       \/ oidcPc = "polling" /\ timeout = pollTimeout /\ UNCHANGED pollTimeout
    /\ latency \in 0 .. MaxLatency
    /\ IF pollElapsed < timeout
       THEN AfterPoll(getToken(oidcClient, response), latency)
       ELSE /\ oidcOut' = Outcome(oidcClient, "", PollTimeoutMsg, << >>)
            /\ oidcPc' = "threw"
            /\ UNCHANGED <<pollElapsed, pollSent>>
    /\ UNCHANGED oidcClient
    /\ UNCHANGED <<batchVars, sigVars, proxyVars, otpVars, pageVars, loopVars, cookieVars>>

\* the caller takes what pollToken returned or threw and may call again
PollDone ==
    /\ Live /\ oidcPc \in {"returned", "threw"}
    /\ oidcPc' = "idle"
    /\ pollTimeout' = 0 /\ pollElapsed' = 0 /\ pollSent' = 0
    /\ UNCHANGED <<oidcClient, oidcOut>>
    /\ UNCHANGED <<batchVars, sigVars, proxyVars, otpVars, pageVars, loopVars, cookieVars>>

NextOidc ==
    \/ \E ok \in BOOLEAN : CallClient(registerClient(oidcClient, ok))
    \/ \E ok \in BOOLEAN : CallClient(deviceAuthorize(oidcClient, ok))
    \/ \E registered, authorized \in BOOLEAN :
          CallClient(quickAuth(oidcClient, registered, authorized))
    \/ \E response \in TokenResponses : CallClient(getToken(oidcClient, response))
    \/ \E timeout \in 0 .. MaxTimeout, response \in TokenResponses,
          latency \in 0 .. MaxLatency : pollToken(timeout, response, latency)
    \/ PollDone

\* ------------------------------------------------------------------------
\* registrationWorker (session.ts 260-663)
\* Each action is one continuation of the async function: the code that runs
\* between two awaits.
\* ------------------------------------------------------------------------
InSession(w) == wpc[w] \in {"rw_auth", "rw_open", "rw_nav", "rw_flow", "rw_token",
                            "rw_validate", "rw_close", "rw_cleanup", "rw_exit"}

\* a catch block that records the message but leaves the status as it was
CaughtKeepsStatus(w, err) == updateSession(sessions, cur[w], [error |-> err])

\* lines 628-633: the catch block records status error and the message
Caught(w, err) == updateSession(sessions, cur[w], [status |-> "error", error |-> err])

\* lines 196, 272-282: the Worker invokes registrationWorker, which creates
\* the session (pending) under a fresh id and sets it running
Call(w) ==
    /\ At(w, "call")
    /\ LET id == <<w, nextId[w] + 1>> IN
        /\ sessions' = updateSession((id :> createSession(<<w, acct[w]>>)) @@ sessions,
                                     id, [status |-> "running"])
        /\ cur' = [cur EXCEPT ![w] = id]
    /\ nextId' = [nextId EXCEPT ![w] = nextId[w] + 1]
    /\ browser' = [browser EXCEPT ![w] = null]
    /\ localSession' = [localSession EXCEPT ![w] = null]
    /\ rwErr' = [rwErr EXCEPT ![w] = null]
    /\ opened' = [opened EXCEPT ![w] = FALSE]
    /\ closeCalled' = [closeCalled EXCEPT ![w] = FALSE]
    /\ wpc' = [wpc EXCEPT ![w] = "rw_auth"]
    /\ UNCHANGED <<cfg, bpc, finalProgress, acct, retryCount,
                   browserId, accountProxy, roxyOpen, activeSessions, sigVars, proxyVars, flowVars>>

\* lines 288-294: quickAuth (client registration, device authorization)
RwQuickAuth(w, ok) ==
    /\ At(w, "rw_auth")
    /\ rwErr' = [rwErr EXCEPT ![w] = IF ok THEN null ELSE "Error"]
    /\ sessions' = IF ok THEN sessions ELSE Caught(w, "Error")
    /\ wpc' = [wpc EXCEPT ![w] = IF ok THEN "rw_open" ELSE "rw_cleanup"]
    /\ UNCHANGED <<cfg, bpc, finalProgress, acct, retryCount,
                   browserId, accountProxy, nextId, cur, browser, localSession,
                   opened, closeCalled, roxyOpen, activeSessions, sigVars, proxyVars, flowVars>>

\* lines 299-311 with launchLocalBrowser / openBrowser.
\*   "launched"   local: puppeteer.launch succeeded, the session is tracked
\*   "connected"  roxy: browserOpen and puppeteer.connect succeeded
\*   "noconnect"  roxy: browserOpen succeeded, puppeteer.connect threw
\*   "failed"     nothing was opened (configure/launch/browserOpen failed)
\* A window left open earlier makes browserOpen answer "already open";
\* openBrowser then closes it and opens again.
OpenOutcomes ==
    IF cfg.BROWSER_MODE = "local" THEN {"launched", "failed"}
    ELSE {"connected", "noconnect", "failed"}

RwOpenBrowser(w, outcome) ==
    /\ At(w, "rw_open")
    /\ outcome \in OpenOutcomes
    /\ LET ok == outcome \in {"launched", "connected"} IN
        /\ localSession' = [localSession EXCEPT ![w] =
                              IF outcome = "launched" THEN "session" ELSE null]
        /\ activeSessions' = IF outcome = "launched"
                             THEN activeSessions \cup {w} ELSE activeSessions
        /\ browser' = [browser EXCEPT ![w] = IF ok THEN "browser" ELSE null]
        /\ roxyOpen' = [roxyOpen EXCEPT ![w] =
                          IF outcome \in {"connected", "noconnect"} THEN TRUE
                          ELSE roxyOpen[w]]
        /\ opened' = [opened EXCEPT ![w] = outcome # "failed"]
        /\ rwErr' = [rwErr EXCEPT ![w] = IF ok THEN null ELSE "Error"]
        /\ sessions' = IF ok THEN sessions ELSE Caught(w, "Error")
        /\ wpc' = [wpc EXCEPT ![w] = IF ok THEN "rw_nav" ELSE "rw_cleanup"]
    /\ UNCHANGED <<cfg, bpc, finalProgress, acct, retryCount,
                   browserId, accountProxy, nextId, cur, closeCalled, sigVars, proxyVars, flowVars>>

\* lines 313-371: connection check, first page, proxy authentication,
\* navigation to the verification URL, reloads of a stuck page
RwNavigate(w, ok) ==
    /\ At(w, "rw_nav")
    /\ rwErr' = [rwErr EXCEPT ![w] = IF ok THEN null ELSE "Error"]
    /\ sessions' = IF ok THEN sessions ELSE Caught(w, "Error")
    /\ wpc' = [wpc EXCEPT ![w] = IF ok THEN "rw_flow" ELSE "rw_cleanup"]
    /\ UNCHANGED <<cfg, bpc, finalProgress, acct, retryCount,
                   browserId, accountProxy, nextId, cur, browser, localSession,
                   opened, closeCalled, roxyOpen, activeSessions, sigVars, proxyVars, flowVars>>

\* lines 376-588: the outcome of the polling loop: the complete page was
\* reached (then status polling_token), IPBlockedError was raised, or any
\* other error (timeout included)
RwFlow(w, outcome) ==
    /\ At(w, "rw_flow")
    /\ outcome \in {"complete", "IPBlockedError", "Error"}
    /\ rwErr' = [rwErr EXCEPT ![w] = IF outcome = "complete" THEN null ELSE outcome]
    /\ sessions' = IF outcome = "complete"
                   THEN updateSession(sessions, cur[w], [status |-> "polling_token"])
                   ELSE Caught(w, outcome)
    /\ wpc' = [wpc EXCEPT ![w] = IF outcome = "complete" THEN "rw_token" ELSE "rw_cleanup"]
    /\ UNCHANGED <<cfg, bpc, finalProgress, acct, retryCount,
                   browserId, accountProxy, nextId, cur, browser, localSession,
                   opened, closeCalled, roxyOpen, activeSessions, sigVars, proxyVars, flowVars>>

\* line 590: pollToken returns the token or throws
RwPollToken(w, ok) ==
    /\ At(w, "rw_token")
    /\ rwErr' = [rwErr EXCEPT ![w] = IF ok THEN null ELSE "Error"]
    /\ sessions' = IF ok THEN sessions ELSE Caught(w, "Error")
    /\ wpc' = [wpc EXCEPT ![w] = IF ok THEN "rw_validate" ELSE "rw_cleanup"]
    /\ UNCHANGED <<cfg, bpc, finalProgress, acct, retryCount,
                   browserId, accountProxy, nextId, cur, browser, localSession,
                   opened, closeCalled, roxyOpen, activeSessions, sigVars, proxyVars, flowVars>>

\* validateToken (api/token-validator.ts): what the request of lines 29-45
\* brought: it failed (`threw`), or a response with a status code and a body
\* holding one of the error names the function looks for, or none of them
StatusCodes == {200, 401, 403, 404, 500}
Bodies == {"", "TEMPORARILY_SUSPENDED", "ExpiredToken", "expired",
           "UnauthorizedException", "AccessDeniedException",
           "ValidationException", "ResourceNotFoundException"}
Responses == [threw : BOOLEAN, status : StatusCodes, text : Bodies]

\* lines 23-91: validateToken, the tests in their order
validateToken(r) ==
    IF r.threw THEN "error"
    ELSE IF r.text = "TEMPORARILY_SUSPENDED" THEN "suspended"
    ELSE IF r.status = 401
            \/ r.text \in {"ExpiredToken", "expired", "UnauthorizedException"}
         THEN "expired"
    ELSE IF r.text \in {"AccessDeniedException", "ValidationException",
                        "ResourceNotFoundException"}
         THEN "invalid"
    ELSE IF r.status \in 200 .. 299 THEN "valid"
    ELSE IF r.status = 403 THEN "invalid"
    ELSE IF r.status >= 500 THEN "error"
    ELSE "invalid"

\* the statuses validateToken can answer
ValidationOutcomes == {validateToken(r) : r \in Responses}

\* a registrationWorker for which only a valid token completes the session
RwValidateGated(w, tokenStatus) ==
    /\ At(w, "rw_validate")
    /\ tokenStatus \in TokenStatuses
    /\ sessions' = updateSession(sessions, cur[w],
                       [token |-> TRUE, tokenStatus |-> tokenStatus,
                        status |-> IF tokenStatus = "valid" THEN "completed"
                                   ELSE "error"])
    /\ wpc' = [wpc EXCEPT ![w] = "rw_close"]
    /\ UNCHANGED <<cfg, bpc, finalProgress, acct, retryCount,
                   browserId, accountProxy, nextId, cur, browser, localSession,
                   rwErr, opened, closeCalled, roxyOpen, activeSessions, sigVars, proxyVars, flowVars>>

\* lines 593-606: validateToken (never throws), then token, tokenStatus and
\* status completed in one update
RwValidate(w, tokenStatus) ==
    /\ At(w, "rw_validate")
    /\ tokenStatus \in TokenStatuses
    /\ sessions' = updateSession(sessions, cur[w],
                       [token |-> TRUE, tokenStatus |-> tokenStatus,
                        status |-> "completed"])
    /\ wpc' = [wpc EXCEPT ![w] = "rw_close"]
    /\ UNCHANGED <<cfg, bpc, finalProgress, acct, retryCount,
                   browserId, accountProxy, nextId, cur, browser, localSession,
                   rwErr, opened, closeCalled, roxyOpen, activeSessions, sigVars, proxyVars, flowVars>>

\* closeLocalBrowser: never throws; the session leaves activeSessions
\* closeBrowser: disconnect errors are ignored, browserClose is not guarded:
\*   "closed"    the backend closed the window
\*   "threw"     the request failed and closeBrowser throws
CloseOutcomes ==
    IF cfg.BROWSER_MODE = "local" THEN {"closed"} ELSE {"closed", "threw"}

\* does the close branch of lines 616-620 / 636-648 call a close at all
ClosesLocal(w) == cfg.BROWSER_MODE = "local" /\ localSession[w] # null
ClosesRoxy(w) == ~ClosesLocal(w) /\ browser[w] # null /\ browserId[w] # ""
Closes(w) == ClosesLocal(w) \/ ClosesRoxy(w)

\* the effect of the close branch on the backends
CloseRoxy(w, outcome) ==
    [roxyOpen EXCEPT ![w] =
        IF ClosesRoxy(w) /\ outcome = "closed" THEN FALSE ELSE roxyOpen[w]]
CloseLocal(w) == IF ClosesLocal(w) THEN activeSessions \ {w} ELSE activeSessions

\* lines 615-627 and 197-199: the close on the success path, inside the outer
\* try; when it returns the session is returned, success = true ends the
\* retry loop; when it throws the catch block runs
RwClose(w, outcome) ==
    /\ At(w, "rw_close")
    /\ outcome \in CloseOutcomes
    /\ Closes(w) \/ outcome = "closed"
    /\ roxyOpen' = CloseRoxy(w, outcome)
    /\ activeSessions' = CloseLocal(w)
    /\ IF outcome = "threw"
       THEN /\ rwErr' = [rwErr EXCEPT ![w] = "Error"]
            /\ sessions' = Caught(w, "Error")
            /\ closeCalled' = [closeCalled EXCEPT ![w] = TRUE]
            /\ wpc' = [wpc EXCEPT ![w] = "rw_cleanup"]
            /\ UNCHANGED <<cur, browser, localSession, opened, accountProxy, retryCount>>
       ELSE /\ wpc' = [wpc EXCEPT ![w] = EndBodyPc(w)]
            /\ cur' = [cur EXCEPT ![w] = null]
            /\ browser' = [browser EXCEPT ![w] = null]
            /\ localSession' = [localSession EXCEPT ![w] = null]
            /\ opened' = [opened EXCEPT ![w] = FALSE]
            /\ closeCalled' = [closeCalled EXCEPT ![w] = FALSE]
            /\ accountProxy' = [accountProxy EXCEPT ![w] = null]
            /\ retryCount' = [retryCount EXCEPT ![w] = 0]
            /\ UNCHANGED <<rwErr, sessions>>
    /\ UNCHANGED <<cfg, bpc, finalProgress, acct, browserId, nextId, sigVars, proxyVars, flowVars>>

\* lines 635-648: close on error; failures of the close are ignored
RwCleanup(w, outcome) ==
    /\ At(w, "rw_cleanup")
    /\ outcome \in CloseOutcomes
    /\ Closes(w) \/ outcome = "closed"
    /\ roxyOpen' = CloseRoxy(w, outcome)
    /\ activeSessions' = CloseLocal(w)
    /\ closeCalled' = [closeCalled EXCEPT ![w] = closeCalled[w] \/ Closes(w)]
    /\ wpc' = [wpc EXCEPT ![w] = "rw_exit"]
    /\ UNCHANGED <<cfg, bpc, finalProgress, sessions, acct, retryCount,
                   browserId, accountProxy, nextId, cur, browser, localSession,
                   rwErr, opened, sigVars, proxyVars, flowVars>>

\* the retry loop of lines 166-209 after an attempt that threw `err`
RetryPc(w) == IF cfg.useEnvProxy THEN "retry" ELSE "call"
\* a retry test that lets the counter reach maxRetries + 1
RetriesOnceMore(w, err) == err = "IPBlockedError" /\ retryCount[w] <= maxRetries
Retries(w, err) == err = "IPBlockedError" /\ retryCount[w] < maxRetries

\* lines 650-661 and 197-208: IPBlockedError is re-thrown and the Worker
\* retries while retryCount < maxRetries; otherwise the session is returned
\* (or the Worker gives the account up)
RwExit(w) ==
    /\ At(w, "rw_exit")
    /\ IF Retries(w, rwErr[w])
       THEN /\ retryCount' = [retryCount EXCEPT ![w] = retryCount[w] + 1]
            /\ wpc' = [wpc EXCEPT ![w] = RetryPc(w)]
            /\ UNCHANGED accountProxy
       ELSE /\ wpc' = [wpc EXCEPT ![w] = EndBodyPc(w)]
            /\ retryCount' = [retryCount EXCEPT ![w] = 0]
            /\ accountProxy' = [accountProxy EXCEPT ![w] = null]
    /\ cur' = [cur EXCEPT ![w] = null]
    /\ browser' = [browser EXCEPT ![w] = null]
    /\ localSession' = [localSession EXCEPT ![w] = null]
    /\ rwErr' = [rwErr EXCEPT ![w] = null]
    /\ opened' = [opened EXCEPT ![w] = FALSE]
    /\ closeCalled' = [closeCalled EXCEPT ![w] = FALSE]
    /\ UNCHANGED <<cfg, bpc, finalProgress, sessions, acct,
                   browserId, nextId, roxyOpen, activeSessions, sigVars, proxyVars, flowVars>>

\* ------------------------------------------------------------------------
\* exportResults (orchestrator.ts 380-456): the buckets of the result file
\* ------------------------------------------------------------------------
\* a filter that takes every completed session for a valid account
CompletedAccounts(ss) == {id \in DOMAIN ss : ss[id].status = "completed"}

\* lines 381-383: validAccounts
ValidAccounts(ss) ==
    {id \in DOMAIN ss : ss[id].status = "completed"
        /\ ss[id].token /\ ss[id].tokenStatus = "valid"}

\* `uploads` are the sessions handed to uploadCredentialBackground (lines
\* 396-398), which posts the credential of those that have a refresh token
\* and a registered client
exportResults(progress) ==
    LET ss == progress.sessions
        validAccounts == ValidAccounts(ss)
        suspendedAccounts == {id \in DOMAIN ss : ss[id].status = "completed"
                                 /\ ss[id].tokenStatus = "suspended"}
        expiredAccounts == {id \in DOMAIN ss : ss[id].status = "completed"
                               /\ ss[id].tokenStatus = "expired"}
        invalidAccounts == {id \in DOMAIN ss : ss[id].status = "completed"
                               /\ ss[id].tokenStatus \in {"invalid", "error"}}
        failedAccounts == {id \in DOMAIN ss : ss[id].status = "error"}
    IN [summary |-> [total |-> progress.totalTarget,
                     valid |-> Cardinality(validAccounts),
                     suspended |-> Cardinality(suspendedAccounts),
                     expired |-> Cardinality(expiredAccounts),
                     invalid |-> Cardinality(invalidAccounts),
                     failed |-> Cardinality(failedAccounts)],
        accounts |-> validAccounts,
        uploads |-> validAccounts,
        filtered |-> [suspended |-> suspendedAccounts,
                      expired |-> expiredAccounts,
                      invalid |-> invalidAccounts],
        failures |-> failedAccounts]

\* ------------------------------------------------------------------------
\* Interrupt handlers of batchRegister (orchestrator.ts 235-276)
\* ------------------------------------------------------------------------
SignalKinds == {"SIGINT", "SIGTERM", "uncaughtException", "unhandledRejection"}

\* handlers without the guard: every event goes on to cleanup
ProceedsUnguarded(guard) == TRUE

\* lines 255, 264, 271: `if (isCleaningUp) return;`, the guard shared by
\* handleSignal and the two fault handlers
Proceeds(guard) == ~guard

\* One event is delivered.  The first one sets the guard and runs cleanup up
\* to its await: the progress is exported when the registry is not empty
\* (Bun.write is started, line 447, and not awaited) and the close of all
\* browsers is started.  Later events return at the guard.
Signal(kind) ==
    /\ Live /\ kind \in SignalKinds
    /\ nEvents < MaxEvents
    /\ nEvents' = nEvents + 1
    /\ IF Proceeds(isCleaningUp)
       THEN /\ isCleaningUp' = TRUE
            /\ cleanupRuns' = cleanupRuns + 1
            /\ exportedFile' =
                 LET currentProgress == getProgress(sessions, totalAccounts)
                 IN IF DOMAIN currentProgress.sessions # {}
                    THEN {exportResults(currentProgress)} ELSE exportedFile
            /\ closing' = IF cfg.BROWSER_MODE = "roxy" THEN {} ELSE activeSessions
            /\ cleanupPc' = "closing"
       ELSE UNCHANGED <<isCleaningUp, cleanupRuns, exportedFile, closing, cleanupPc>>
    /\ UNCHANGED <<batchVars, written, exited, proxyVars, flowVars>>

\* closeAllBrowsers / closeAllLocalBrowsers finishes (failures of single
\* closes are ignored; `closedByRoxy` are the windows Roxy did close), then
\* process.exit(1).  Nothing orders the pending Bun.write before the exit:
\* `flushed` tells whether it had finished by then.
CleanupExit(closedByRoxy, flushed) ==
    /\ Live /\ cleanupPc = "closing"
    /\ closedByRoxy \subseteq Workers
    /\ cfg.BROWSER_MODE = "local" => closedByRoxy = {}
    /\ roxyOpen' = [w \in AllWorkers |->
                      IF w \in closedByRoxy THEN FALSE ELSE roxyOpen[w]]
    /\ activeSessions' = activeSessions \ closing
    /\ closing' = {}
    /\ cleanupPc' = "exited"
    /\ written' = IF flushed THEN exportedFile ELSE written
    /\ exited' = TRUE
    /\ UNCHANGED <<cfg, bpc, finalProgress, sessions, wpc, acct, retryCount,
                   browserId, accountProxy, nextId, cur, browser, localSession,
                   rwErr, opened, closeCalled,
                   isCleaningUp, exportedFile, cleanupRuns, nEvents, proxyVars, flowVars>>

NextSig ==
    \/ \E kind \in SignalKinds : Signal(kind)
    \/ \E S \in SUBSET AllWorkers, flushed \in BOOLEAN : CleanupExit(S, flushed)

\* ------------------------------------------------------------------------
\* Proxy Selector (services/proxy.ts)
\* ------------------------------------------------------------------------
\* initUsedIps: the set is loaded from the file once (read errors ignored)
\* portCounter before initPortCounter has run (null), a state file that is
\* missing or holds no number, and a caller without a candidate
NoPort == 0
\* no exit IP is known for the returned proxy
NoIp == 0
\* checkProxyFraudScore resolved to null
NoResult == [ip |-> NoIp, fraudScore |-> 0, isResidential |-> FALSE]
\* what a call of the selector hands back: nothing yet, null, or a proxy
NotReturned == [kind |-> "pending", port |-> NoPort, ip |-> NoIp]
ReturnedNull == [kind |-> "null", port |-> NoPort, ip |-> NoIp]
ReturnedProxy(port, ip) == [kind |-> "proxy", port |-> port, ip |-> ip]

\* initUsedIps: the file is read once; read errors are ignored
initUsedIps(readOk) ==
    IF usedIpsInitialized THEN usedIpsSet
    ELSE IF readOk THEN usedIpsSet \cup usedIpsFile ELSE usedIpsSet

\* isIpUsed
isIpUsed(ip, readOk) == ip \in initUsedIps(readOk)

\* an initPortCounter that reads the state file at every call
initPortCounterReread(readOk) ==
    IF readOk /\ portStateFile # NoPort THEN portStateFile
    ELSE IF portCounter # NoPort THEN portCounter
    ELSE BasePort

\* initPortCounter: the counter is loaded once, from the state file when it
\* holds a number and can be read, else from the base port
initPortCounter(readOk) ==
    IF portCounter # NoPort THEN portCounter
    ELSE IF readOk /\ portStateFile # NoPort THEN portStateFile
    ELSE BasePort

\* writePortState: write errors are ignored
writePortState(port, writeOk) == IF writeOk THEN port ELSE portStateFile

\* the fraud check resolves to null or to a report
Scores == {FRAUD_SCORE_THRESHOLD, FRAUD_SCORE_THRESHOLD + 1}
Reports == [ip : Ips, fraudScore : Scores, isResidential : BOOLEAN]

\* the score test written with >= : a score equal to the threshold is skipped
SkipsAtThreshold(res, readOk) ==
    IF res = NoResult THEN TRUE
    ELSE IF isIpUsed(res.ip, readOk) THEN TRUE
    ELSE IF ~res.isResidential THEN TRUE
    ELSE IF res.fraudScore >= FRAUD_SCORE_THRESHOLD THEN TRUE
    ELSE FALSE

\* lines 263-282: the tests that skip a candidate, in their order
Skips(res, readOk) ==
    IF res = NoResult THEN TRUE
    ELSE IF isIpUsed(res.ip, readOk) THEN TRUE
    ELSE IF ~res.isResidential THEN TRUE
    ELSE IF res.fraudScore > FRAUD_SCORE_THRESHOLD THEN TRUE
    ELSE FALSE

\* an iteration that hands the port out without advancing the counter
IterateSamePort(c, adv, readOk, writeOk) ==
    LET currentPort == initPortCounter(readOk) IN
    /\ currentPort < BasePort + MaxPorts
    /\ portCounter' = currentPort
    /\ portLog' = Append(portLog, currentPort)
    /\ portStateFile' = writePortState(currentPort, writeOk)
    /\ candidate' = [candidate EXCEPT ![c] = currentPort]
    /\ advanced' = [advanced EXCEPT ![c] = adv + 1]
    /\ cpc' = [cpc EXCEPT ![c] = "checking"]
    /\ returned' = [returned EXCEPT ![c] = NotReturned]

\* lines 251-261: one loop iteration up to the await of the fraud check;
\* `adv` is how often the call has raised the counter before
Iterate(c, adv, readOk, writeOk) ==
    LET currentPort == initPortCounter(readOk) IN
    /\ currentPort < BasePort + MaxPorts
    /\ portCounter' = currentPort + 1
    /\ portLog' = Append(portLog, currentPort)
    /\ portStateFile' = writePortState(currentPort + 1, writeOk)
    /\ candidate' = [candidate EXCEPT ![c] = currentPort]
    /\ advanced' = [advanced EXCEPT ![c] = adv + 1]
    /\ cpc' = [cpc EXCEPT ![c] = "checking"]
    /\ returned' = [returned EXCEPT ![c] = NotReturned]

\* the call returns `value`
ReturnValue(c, value) ==
    /\ cpc' = [cpc EXCEPT ![c] = "returned"]
    /\ returned' = [returned EXCEPT ![c] = value]

\* lines 244-261: getNextValidProxy is called: null without a proxy host,
\* else the first candidate is taken
CallValid(c, maxAttempts, readOk, writeOk) ==
    /\ Live /\ cpc[c] = "idle"
    /\ maxAttempts \in 1 .. MaxAttemptsArg
    /\ maxAttemptsArg' = [maxAttemptsArg EXCEPT ![c] = maxAttempts]
    /\ attempt' = [attempt EXCEPT ![c] = 0]
    /\ IF ~proxyHost
       THEN /\ ReturnValue(c, ReturnedNull)
            /\ advanced' = [advanced EXCEPT ![c] = 0]
            /\ UNCHANGED <<portCounter, portStateFile, candidate, portLog>>
       ELSE Iterate(c, 0, readOk, writeOk)
    /\ UNCHANGED <<proxyHost, usedIpsSet, usedIpsInitialized, usedIpsFile, handedOut, refused>>
    /\ UNCHANGED <<batchVars, sigVars, flowVars>>

\* an addUsedIp that does not record the IP
addUsedIpForgets(ip, readOk) == initUsedIps(readOk)

\* addUsedIp: the IP joins the set and is appended to the file (write errors
\* ignored)
addUsedIp(ip, readOk) == initUsedIps(readOk) \cup {ip}

\* a loop test that admits one candidate more
LoopGoesOnOnceMore(c) == attempt[c] + 1 <= maxAttemptsArg[c]

\* line 250: attempt++ is followed by the test attempt < maxAttempts
LoopGoesOn(c) == attempt[c] + 1 < maxAttemptsArg[c]

\* lines 261-291: the awaited checkProxyFraudScore resolves to `result` and the
\* loop goes on: the candidate is skipped (next iteration, or null when the
\* attempts are used up) or accepted
Continue(c, result, readOk, writeOk) ==
    /\ Live /\ cpc[c] = "checking"
    /\ result \in Reports \cup {NoResult}
    /\ IF Skips(result, readOk)
       THEN /\ usedIpsSet' = IF result = NoResult THEN usedIpsSet ELSE initUsedIps(readOk)
            /\ usedIpsInitialized' = (usedIpsInitialized \/ result # NoResult)
            /\ attempt' = [attempt EXCEPT ![c] = attempt[c] + 1]
            /\ IF LoopGoesOn(c)
               THEN Iterate(c, advanced[c], readOk, writeOk)
               ELSE /\ ReturnValue(c, ReturnedNull)
                    /\ UNCHANGED <<portCounter, portStateFile, candidate, advanced, portLog>>
            /\ refused' = IF result # NoResult /\ isIpUsed(result.ip, readOk)
                          THEN refused \cup {result.ip} ELSE refused
            /\ UNCHANGED <<usedIpsFile, handedOut>>
       ELSE /\ usedIpsSet' = addUsedIp(result.ip, readOk)
            /\ usedIpsInitialized' = TRUE
            /\ usedIpsFile' = IF writeOk THEN usedIpsFile \cup {result.ip}
                              ELSE usedIpsFile
            /\ handedOut' = [handedOut EXCEPT ![result.ip] = @ + 1]
            /\ ReturnValue(c, ReturnedProxy(candidate[c], result.ip))
            /\ UNCHANGED <<portCounter, portStateFile, candidate, advanced, attempt, refused, portLog>>
    /\ UNCHANGED <<proxyHost, maxAttemptsArg>>
    /\ UNCHANGED <<batchVars, sigVars, flowVars>>

\* a getNextProxy that hands out the port it has just raised the counter to
getNextProxyNewPort(c, readOk, writeOk) ==
    /\ Live /\ cpc[c] = "idle"
    /\ IF ~proxyHost
       THEN /\ ReturnValue(c, ReturnedNull)
            /\ UNCHANGED <<portCounter, portStateFile, portLog>>
       ELSE LET currentPort == initPortCounter(readOk) IN
            /\ currentPort < BasePort + MaxPorts
            /\ portCounter' = currentPort + 1
            /\ portStateFile' = writePortState(currentPort + 1, writeOk)
            /\ ReturnValue(c, ReturnedProxy(currentPort + 1, NoIp))
            /\ portLog' = Append(portLog, currentPort + 1)
    /\ UNCHANGED <<proxyHost, usedIpsSet, usedIpsInitialized, usedIpsFile,
                   attempt, maxAttemptsArg, candidate, advanced, handedOut, refused>>
    /\ UNCHANGED <<batchVars, sigVars, flowVars>>

\* lines 161-175: getNextProxy
getNextProxy(c, readOk, writeOk) ==
    /\ Live /\ cpc[c] = "idle"
    /\ IF ~proxyHost
       THEN /\ ReturnValue(c, ReturnedNull)
            /\ UNCHANGED <<portCounter, portStateFile, portLog>>
       ELSE LET currentPort == initPortCounter(readOk) IN
            /\ currentPort < BasePort + MaxPorts
            /\ portCounter' = currentPort + 1
            /\ portStateFile' = writePortState(currentPort + 1, writeOk)
            /\ ReturnValue(c, ReturnedProxy(currentPort, NoIp))
            /\ portLog' = Append(portLog, currentPort)
    /\ UNCHANGED <<proxyHost, usedIpsSet, usedIpsInitialized, usedIpsFile,
                   attempt, maxAttemptsArg, candidate, advanced, handedOut, refused>>
    /\ UNCHANGED <<batchVars, sigVars, flowVars>>

\* the caller takes the returned value
Finish(c) ==
    /\ Live /\ cpc[c] = "returned"
    /\ cpc' = [cpc EXCEPT ![c] = "idle"]
    /\ returned' = [returned EXCEPT ![c] = NotReturned]
    /\ attempt' = [attempt EXCEPT ![c] = 0]
    /\ maxAttemptsArg' = [maxAttemptsArg EXCEPT ![c] = 0]
    /\ candidate' = [candidate EXCEPT ![c] = NoPort]
    /\ advanced' = [advanced EXCEPT ![c] = 0]
    /\ UNCHANGED <<proxyHost, portCounter, portStateFile, portLog, usedIpsSet,
                   usedIpsInitialized, usedIpsFile, handedOut, refused>>
    /\ UNCHANGED <<batchVars, sigVars, flowVars>>

\* lines 80-88: resetUsedIps
resetUsedIps(writeOk) ==
    /\ Live
    /\ usedIpsSet' = {}
    /\ usedIpsInitialized' = TRUE
    /\ usedIpsFile' = IF writeOk THEN {} ELSE usedIpsFile
    /\ handedOut' = [ip \in Ips |-> 0]
    /\ refused' = {}
    /\ UNCHANGED <<proxyHost, portCounter, portStateFile, portLog, cpc, attempt,
                   maxAttemptsArg, candidate, returned, advanced>>
    /\ UNCHANGED <<batchVars, sigVars, flowVars>>

\* lines 187-190: resetPortCounter
resetPortCounter(writeOk) ==
    /\ Live
    /\ portCounter' = BasePort
    /\ portLog' = << >>
    /\ portStateFile' = writePortState(BasePort, writeOk)
    /\ UNCHANGED <<proxyHost, usedIpsSet, usedIpsInitialized, usedIpsFile, cpc,
                   attempt, maxAttemptsArg, candidate, returned,
                   advanced, handedOut, refused>>
    /\ UNCHANGED <<batchVars, sigVars, flowVars>>

\* lines 195-197: getCurrentPort
getCurrentPort(readOk) ==
    /\ Live
    /\ portCounter' = initPortCounter(readOk)
    /\ UNCHANGED portLog
    /\ UNCHANGED <<proxyHost, portStateFile, usedIpsSet, usedIpsInitialized,
                   usedIpsFile, cpc, attempt, maxAttemptsArg, candidate,
                   returned, advanced, handedOut, refused>>
    /\ UNCHANGED <<batchVars, sigVars, flowVars>>

\* a new process: the in-memory state is gone, the files stay
Restart ==
    /\ Live
    /\ portCounter' = NoPort
    /\ portLog' = << >>
    /\ usedIpsSet' = {}
    /\ usedIpsInitialized' = FALSE
    /\ cpc' = [c \in Callers |-> "idle"]
    /\ attempt' = [c \in Callers |-> 0]
    /\ maxAttemptsArg' = [c \in Callers |-> 0]
    /\ candidate' = [c \in Callers |-> NoPort]
    /\ returned' = [c \in Callers |-> NotReturned]
    /\ advanced' = [c \in Callers |-> 0]
    /\ handedOut' = [ip \in Ips |-> 0]
    /\ refused' = {}
    /\ UNCHANGED <<proxyHost, portStateFile, usedIpsFile>>
    /\ UNCHANGED <<batchVars, sigVars, flowVars>>

\* the outcomes of reading the state files: nothing is read once both the
\* counter and the set are loaded
ReadOutcomes == IF usedIpsInitialized /\ portCounter # NoPort THEN {TRUE} ELSE BOOLEAN

\* the operations of the selector, getNextProxy and getNextValidProxy being
\* called by the callers of `who`
SelectorNext(who) ==
    \/ \E c \in who, readOk \in ReadOutcomes, writeOk \in BOOLEAN :
        \/ \E maxAttempts \in 1 .. MaxAttemptsArg :
              CallValid(c, maxAttempts, readOk, writeOk)
        \/ \E result \in Reports \cup {NoResult} :
              Continue(c, result, readOk, writeOk)
        \/ getNextProxy(c, readOk, writeOk)
    \/ \E c \in who : Finish(c)
    \/ \E writeOk \in BOOLEAN : resetUsedIps(writeOk)
    \/ \E writeOk \in BOOLEAN : resetPortCounter(writeOk)
    \/ \E readOk \in ReadOutcomes : getCurrentPort(readOk)
    \/ Restart

\* concurrent Workers call the selector
NextProxy == SelectorNext(Callers)

\* a single Worker calls the selector
NextSequential == SelectorNext({1})

\* ------------------------------------------------------------------------
\* OTP retrieval: fetchOtp (utils/email-provider.ts 44-75) and the retrievers
\* fetchAwsOtp, fetchMailtmOtp, fetchFreemailOtp, fetchSimpleLoginOtp
\* ------------------------------------------------------------------------
Providers == {"gmail", "simplelogin", "mailtm", "freemail"}
Codes == 1 .. MaxCodes

\* what one tryFetchOtp call does: it resolves with a code, resolves without
\* one (no message yet, no code in the messages), or throws
PollOutcomes ==
    {[kind |-> "none", code |-> 0], [kind |-> "error", code |-> 0]}
        \cup {[kind |-> "code", code |-> c] : c \in Codes}

\* the arguments of a call: `client` tells whether the provider's client was
\* passed, `ready` whether the mailbox can be read at all (Mail.tm client
\* authenticated, Gmail token obtained), `emailOk` whether toEmail has a
\* local part and a domain
OtpCalls ==
    [provider : Providers, client : BOOLEAN, ready : BOOLEAN,
     emailOk : BOOLEAN, maxAttempts : 0 .. MaxOtpAttempts]

NoOtpResult == [success |-> FALSE, code |-> 0, error |-> ""]

IdleOtp ==
    /\ otpCall = [provider |-> "gmail", client |-> FALSE, ready |-> FALSE,
                  emailOk |-> FALSE, maxAttempts |-> 0]
    /\ otpPc = "idle"
    /\ otpAttempt = 0
    /\ otpLog = << >>
    /\ otpResult = NoOtpResult

\* the rejection fetchOtp answers with before any retriever loop runs, if any:
\* fetchSimpleLoginOtp is not implemented, the mailtm and freemail cases
\* throw without their client, resolveBaseEmail throws on a malformed address
OtpRejection(call) ==
    IF call.provider = "simplelogin" THEN "SimpleLogin OTP fetching not implemented yet"
    ELSE IF call.provider = "mailtm" /\ ~call.client
         THEN "Mail.tm requires an authenticated MailtmClient instance."
    ELSE IF call.provider = "freemail" /\ ~call.client
         THEN "Freemail requires a FreemailClient instance."
    ELSE IF call.provider = "gmail" /\ ~call.emailOk THEN "Invalid email"
    ELSE ""

\* the failure a retriever returns before its loop, if any
OtpRefusal(call) ==
    IF call.provider = "mailtm" /\ ~call.ready
    THEN "Mail.tm client not authenticated. Call createSession() first."
    ELSE IF call.provider = "gmail" /\ ~call.ready THEN "Gmail auth failed"
    ELSE ""

\* the for loop's test `attempt <= maxAttempts` with n as attempt: another
\* iteration, or the failure after the loop
OtpLoop(n) ==
    IF n <= otpCall.maxAttempts
    THEN /\ otpPc' = "loop" /\ otpResult' = otpResult
    ELSE /\ otpPc' = "returned"
         /\ otpResult' = [success |-> FALSE, code |-> 0,
                          error |-> "No verification email found"]

\* fetchOtp dispatches on the provider; the retriever runs up to its loop
OtpStart ==
    /\ otpPc = "called"
    /\ IF OtpRejection(otpCall) # ""
       THEN /\ otpPc' = "threw"
            /\ otpResult' = [success |-> FALSE, code |-> 0,
                             error |-> OtpRejection(otpCall)]
            /\ UNCHANGED otpAttempt
       ELSE IF OtpRefusal(otpCall) # ""
       THEN /\ otpPc' = "returned"
            /\ otpResult' = [success |-> FALSE, code |-> 0,
                             error |-> OtpRefusal(otpCall)]
            /\ UNCHANGED otpAttempt
       ELSE /\ otpAttempt' = 1
            /\ OtpLoop(1)
    /\ UNCHANGED <<batchVars, sigVars, proxyVars, pageVars, loopVars, oidcVars, cookieVars, otpCall, otpLog>>

\* a retriever that polls on whatever a poll found
ReturnsNever(outcome) == FALSE

\* `if (result.success && result.code) return result;`
ReturnsCode(outcome) == outcome.kind = "code"

\* one iteration up to its end or its pacing timer: onPoll(attempt,
\* maxAttempts), then tryFetchOtp with `outcome`
OtpAttempt(outcome) ==
    /\ otpPc = "loop" /\ outcome \in PollOutcomes
    /\ otpLog' = otpLog \o
          << [ev |-> "onPoll", attempt |-> otpAttempt, kind |-> "", code |-> 0],
             [ev |-> "poll", attempt |-> otpAttempt,
              kind |-> outcome.kind, code |-> outcome.code] >>
    /\ IF ReturnsCode(outcome)
       THEN /\ otpPc' = "returned"
            /\ otpResult' = [success |-> TRUE, code |-> outcome.code, error |-> ""]
            /\ UNCHANGED otpAttempt
       ELSE IF otpAttempt < otpCall.maxAttempts
       THEN /\ otpPc' = "sleep"
            /\ UNCHANGED <<otpAttempt, otpResult>>
       ELSE IF outcome.kind = "error"
       THEN /\ otpPc' = "returned"
            /\ otpResult' = [success |-> FALSE, code |-> 0, error |-> "poll error"]
            /\ UNCHANGED otpAttempt
       ELSE /\ otpAttempt' = otpAttempt + 1
            /\ OtpLoop(otpAttempt + 1)
    /\ UNCHANGED <<batchVars, sigVars, proxyVars, pageVars, loopVars, oidcVars, cookieVars, otpCall>>

\* the pacing timer (pollIntervalMs) fires: attempt++ and the loop test
OtpSleep ==
    /\ otpPc = "sleep"
    /\ otpAttempt' = otpAttempt + 1
    /\ OtpLoop(otpAttempt + 1)
    /\ UNCHANGED <<batchVars, sigVars, proxyVars, pageVars, loopVars, oidcVars, cookieVars, otpCall, otpLog>>

NextOtp ==
    \/ OtpStart
    \/ \E outcome \in PollOutcomes : OtpAttempt(outcome)
    \/ OtpSleep

\* ------------------------------------------------------------------------
\* Page classification: detectPageType (register.ts, unnamed/part_007 28-99)
\* ------------------------------------------------------------------------
PageTypes == {"login", "signup", "name", "verify", "password",
              "device_confirm", "allow_access", "complete", "unknown"}

\* what detectPageType reads of a page: the substrings it looks for in
\* page.url() and the domState it evaluates
Pages ==
    [urlAwsapps : BOOLEAN,          \* "awsapps.com"
     urlDeviceCode : BOOLEAN,       \* "#/device?user_code="
     urlVerify : BOOLEAN,           \* "verify-otp", "/verification" or "verifyEmail"
     urlRegistrationCode : BOOLEAN, \* "/signup?registrationCode="
     urlSignupStart : BOOLEAN,      \* "#/signup/start"
     urlEnterEmail : BOOLEAN,       \* "#/signup/enter-email"
     urlLoginHandle : BOOLEAN,      \* "/login?workflowStateHandle="
     hasConfirmBtn : BOOLEAN,
     textConfirm : BOOLEAN,         \* "Confirm and continue" or "confirm this code"
     textComplete : BOOLEAN,        \* "Request approved" or "You can close this window"
     hasAllowBtn : BOOLEAN,
     textAllow : BOOLEAN,           \* "Allow access" or "allow access"
     textVerify : BOOLEAN,          \* "Verify your email" or "verification code"
     domPassword : BOOLEAN,         \* "Create your password", or hasPwdInputs
     hasNameInput : BOOLEAN,
     hasEmailInput : BOOLEAN,
     textGetStarted : BOOLEAN]      \* "Get started"

detectPageType(p) ==
    IF p.urlAwsapps /\ p.urlDeviceCode THEN "device_confirm"
    ELSE IF p.urlVerify THEN "verify"
    ELSE IF p.urlRegistrationCode THEN "password"
    ELSE IF p.urlSignupStart THEN "name"
    ELSE IF p.hasConfirmBtn THEN "device_confirm"
    ELSE IF p.textConfirm THEN "device_confirm"
    ELSE IF p.textComplete THEN "complete"
    ELSE IF p.hasAllowBtn THEN "allow_access"
    ELSE IF p.textAllow /\ p.urlAwsapps THEN "allow_access"
    ELSE IF p.textVerify THEN "verify"
    ELSE IF p.domPassword THEN "password"
    ELSE IF p.hasNameInput /\ p.hasEmailInput THEN "signup"
    ELSE IF p.urlEnterEmail /\ p.hasNameInput THEN "signup"
    ELSE IF p.hasNameInput /\ ~p.hasEmailInput THEN "name"
    ELSE IF (p.urlLoginHandle \/ p.textGetStarted) /\ p.hasEmailInput THEN "login"
    ELSE "unknown"

BlankPage == [f \in DOMAIN (CHOOSE p \in Pages : TRUE) |-> FALSE]

\* no processPage call made yet
NoCall ==
    [pageId |-> <<"none", << >> >>, acted |-> FALSE,
     result |-> [success |-> FALSE, pageType |-> "none", error |-> ""]]

IdleDetect ==
    /\ page = BlankPage
    /\ pageType = "none"

\* createPageAutomationContext: an empty set of processed pages
IdleProcess ==
    /\ processedPages = {}
    /\ performed = {}
    /\ ppCalls = 0
    /\ ppLast = NoCall
    /\ cookiePopupHandled = FALSE
    /\ cookieTried = 0

IdlePages == IdleDetect /\ IdleProcess

\* no iteration examined
NoIteration ==
    [type |-> "none", outcome |-> "done", blankUrl |-> FALSE, banner |-> "none",
     run |-> << >>, otpError |-> FALSE, fetch |-> "none", fault |-> "none",
     faultAt |-> "none"]

\* registrationWorker has not reached its polling loop
IdlePoll ==
    /\ iter = NoIteration
    /\ lowBandwidth = FALSE
    /\ attempts = 0
    /\ lastPageType = ""
    /\ verificationMessageShown = FALSE
    /\ otpRetryCount = 0
    /\ stuckPageCount = 0
    /\ pollPc = "idle"
    /\ pollErr = ""
    /\ polled = 0
    /\ reloaded = FALSE
    /\ otpExhausted = FALSE
    /\ prevType = ""
    /\ sameCount = 0

\* no OIDC client under examination
IdleOidc ==
    /\ oidcClient = NewClient
    /\ oidcPc = "idle"
    /\ oidcOut = NoOutcome
    /\ pollTimeout = 0
    /\ pollElapsed = 0
    /\ pollSent = 0

IdleFlow == IdleOtp /\ IdlePages /\ IdlePoll /\ IdleOidc

\* one call of detectPageType on the page shown
Detect ==
    /\ pageType = "none"
    /\ pageType' = detectPageType(page)
    /\ UNCHANGED <<batchVars, sigVars, proxyVars, otpVars, loopVars, oidcVars, cookieVars, page,
                   processedPages, performed, ppCalls, ppLast>>

NextDetect == Detect

\* ------------------------------------------------------------------------
\* Page processing: getPageId and processPage (unnamed/part_007 15-23, 513-580)
\* ------------------------------------------------------------------------
\* URLs as strings of the characters that matter to getPageId
Urls == UNION {[1 .. n -> {"a", "?", "#"}] : n \in 1 .. MaxUrlLen}

\* String.prototype.split on a one-character separator
RECURSIVE split(_, _)
split(u, ch) ==
    IF \A i \in 1 .. Len(u) : u[i] # ch THEN <<u>>
    ELSE LET i == CHOOSE k \in 1 .. Len(u) :
                      u[k] = ch /\ \A j \in 1 .. (k - 1) : u[j] # ch
         IN <<SubSeq(u, 1, i - 1)>> \o split(SubSeq(u, i + 1, Len(u)), ch)

getPageId(url, type) ==
    LET urlParts == split(url, "?")
        baseUrl == urlParts[1]
        hash == IF \E i \in 1 .. Len(url) : url[i] = "#"
                THEN split(url, "#")[2] ELSE << >>
        cleanUrl == IF hash # << >> THEN baseUrl \o <<"#">> \o hash ELSE baseUrl
    IN <<type, cleanUrl>>

\* a processPage that marks the page whatever its handler answered
MarksAlways(success) == TRUE

\* line 567: `if (success) ctx.processedPages.add(pageId)`
MarksOnSuccess(success) == success

\* a processPage that deduplicates every page type
skipDedupNever(type) == FALSE

\* line 529: `pageType === "device_confirm" || pageType === "allow_access"`
skipDedup(type) == type \in {"device_confirm", "allow_access"}

\* what the search for the cookie banner finds: no banner ("none"), a banner
\* that it clicks away ("dismissed"), or page.evaluate throws ("threw")
CookieOutcomes == {"none", "dismissed", "threw"}

\* a handleCookiePopup that sets the flag whatever the search found
HandledWhenTried(popup) == TRUE

\* lines 501-504: `if (dismissed) { ...; ctx.cookiePopupHandled = true }`
HandledWhenDismissed(popup) == popup = "dismissed"

\* lines 465-508: handleCookiePopup; nothing is searched once the flag is set
handleCookiePopup(popup) ==
    IF cookiePopupHandled
    THEN popup = "none" /\ UNCHANGED cookieVars
    ELSE /\ cookieTried' = cookieTried + 1
         /\ cookiePopupHandled' = HandledWhenDismissed(popup)

\* one processPage call on a page at `url` that detectPageType classifies as
\* `type` ("threw": it throws); `handled` is what the handler of the type
\* does: it answers true ("done") or false ("failed"), or it throws; `popup`
\* is what handleCookiePopup, called first, finds
ProcessPage(type, url, handled, popup) ==
    /\ ppCalls < MaxCalls
    /\ type \in PageTypes \cup {"threw"} /\ url \in Urls
    /\ handled \in {"done", "failed", "threw"}
    /\ popup \in CookieOutcomes
    /\ handleCookiePopup(popup)
    /\ type \in {"complete", "unknown", "threw"} => handled = "done"
    /\ ppCalls' = ppCalls + 1
    /\ LET pageId == getPageId(url, type)
       IN IF type = "threw"
          THEN /\ ppLast' = [pageId |-> NoCall.pageId, acted |-> FALSE,
                             result |-> [success |-> FALSE, pageType |-> "unknown",
                                         error |-> "thrown"]]
               /\ UNCHANGED <<processedPages, performed>>
          ELSE IF ~skipDedup(type) /\ pageId \in processedPages
          THEN /\ ppLast' = [pageId |-> pageId, acted |-> FALSE,
                             result |-> [success |-> TRUE, pageType |-> type,
                                         error |-> "Already processed"]]
               /\ UNCHANGED <<processedPages, performed>>
          ELSE IF type = "unknown"
          THEN /\ ppLast' = [pageId |-> pageId, acted |-> FALSE,
                             result |-> [success |-> TRUE, pageType |-> type,
                                         error |-> ""]]
               /\ UNCHANGED <<processedPages, performed>>
          ELSE IF handled = "threw"
          THEN /\ ppLast' = [pageId |-> pageId, acted |-> TRUE,
                             result |-> [success |-> FALSE, pageType |-> "unknown",
                                         error |-> "thrown"]]
               /\ UNCHANGED <<processedPages, performed>>
          ELSE /\ ppLast' = [pageId |-> pageId, acted |-> type # "complete",
                             result |-> [success |-> handled = "done",
                                         pageType |-> type, error |-> ""]]
               /\ processedPages' = IF MarksOnSuccess(handled = "done")
                                    THEN processedPages \cup {pageId}
                                    ELSE processedPages
               /\ performed' = IF handled = "done" THEN performed \cup {pageId}
                               ELSE performed
    /\ UNCHANGED <<batchVars, sigVars, proxyVars, otpVars, loopVars, oidcVars, page, pageType>>

\* session.ts 405: after the reload of a stuck page the session clears the set
ClearProcessed ==
    /\ processedPages # {}
    /\ processedPages' = {}
    /\ performed' = {}
    /\ UNCHANGED <<batchVars, sigVars, proxyVars, otpVars, loopVars, oidcVars, cookieVars, page, pageType,
                   ppCalls, ppLast>>

NextPages ==
    \/ \E type \in PageTypes \cup {"threw"}, url \in Urls,
          handled \in {"done", "failed", "threw"}, popup \in CookieOutcomes :
              ProcessPage(type, url, handled, popup)
    \/ ClearProcessed

\* ------------------------------------------------------------------------
\* The polling loop of registrationWorker (session.ts 376-584)
\* ------------------------------------------------------------------------
\* line 398: the page is reloaded at every 20th stuck iteration
StuckReloadEvery == 20
\* line 433
maxPageErrorRetries == 5
\* line 381
maxOtpRetries == 5

\* line 377
maxAttempts == IF lowBandwidth THEN 240 ELSE 120

\* the messages of the errors the loop throws
ExpiredMsg == "AWS error: signup session expired"
BlockedMsg == "AWS error: likely IP blocked"
BlankMsg == "Blank signup page - skipping"
OtpFailedMsg == "OTP verification failed after 5 retries"
ProcessingMsg == "Page processing failed"
TimeoutMsg == "Registration flow timeout - max attempts reached"
\* an exception of a page call that the catch block of line 567 re-throws
FaultMsg == "Protocol error"

\* the errors that are instances of IPBlockedError
IPBlocked(err) == err \in {ExpiredMsg, BlockedMsg}

\* the URL of the pages of the loop (the loop reads of it only whether it
\* holds "/signup?registrationCode=")
PollUrl == <<"a">>

\* the banner observations of the resubmission loop of lines 435-464, one
\* per attempt made (TRUE: an error banner is still showing): the loop stops
\* at the first attempt that shows none, and after maxPageErrorRetries
ResubmitRuns ==
    {run \in UNION {[1 .. n -> BOOLEAN] : n \in 1 .. maxPageErrorRetries} :
        /\ \A k \in 1 .. (Len(run) - 1) : run[k]
        /\ Len(run) < maxPageErrorRetries => ~run[Len(run)]}
\* no resubmission was made
NoRun == << >>

\* What happens in one iteration:
\*   type, outcome  what processPage answered: the handler succeeded ("done")
\*                  or answered false ("failed"), the page was deduplicated
\*                  ("already"), or processPage caught an exception whose
\*                  message names a navigation ("navError") or not ("otherError")
\*   blankUrl       page.url() holds "/signup?registrationCode="
\*   banner         pageErrors: "expired" (sessionExpired), "aws" (awsError
\*                  only) or "none"
\*   run            the banner observations of the resubmission attempts
\*   otpError       hasOtpError
\*   fetch          what fetchOtp returned: a code ("code"), a failure after
\*                  its attempts ("exhausted"); "none" when it was not called
\*                  or threw
\*   fault, faultAt an awaited page call of the iteration threw, with a
\*                  message the catch block takes for a navigation ("nav")
\*                  or not ("other"): the evaluate of line 424
\*                  ("pageErrors"), a call of the resubmission attempt after
\*                  those of `run` ("resubmit"), the evaluate of line 475
\*                  ("otpCheck"), fetchOtp ("fetchOtp")
IterationsOf(types) ==
    { it \in [type : types,
              outcome : {"done", "failed", "already", "navError", "otherError"},
              blankUrl : BOOLEAN,
              banner : {"none", "aws", "expired"},
              run : ResubmitRuns \cup {NoRun}
                      \cup UNION {[1 .. n -> {TRUE}] : n \in 1 .. (maxPageErrorRetries - 1)},
              otpError : BOOLEAN,
              fetch : {"none", "code", "exhausted"},
              fault : {"none", "nav", "other"},
              faultAt : {"none", "pageErrors", "resubmit", "otpCheck", "fetchOtp"}] :
        LET blank == it.blankUrl /\ it.type # "password"
            checked == ~blank /\ it.faultAt # "pageErrors"
            detected == checked /\ (it.banner = "expired"
                                      \/ (it.type # "verify" /\ it.banner = "aws"))
            resolved == it.run \in ResubmitRuns /\ ~it.run[Len(it.run)]
            verify == checked /\ it.type = "verify" /\ (detected => resolved)
                         /\ it.faultAt # "resubmit"
        IN \* what processPage can answer for the type
           /\ it.outcome \in {"navError", "otherError"} => it.type = "unknown"
           /\ it.type = "unknown" => it.outcome # "failed" /\ it.outcome # "already"
           /\ it.type = "complete" => it.outcome \in {"done", "already"}
           /\ it.type \in {"device_confirm", "allow_access"} => it.outcome # "already"
           /\ it.type = "verify" => it.outcome # "failed"
           \* no more than the iteration reads
           /\ (it.fault = "none") = (it.faultAt = "none")
           /\ blank => it.faultAt = "none"
           /\ ~checked => it.banner = "none"
           /\ ~detected => it.run = NoRun /\ it.faultAt # "resubmit"
           /\ detected =>
                 IF it.faultAt = "resubmit"
                 THEN it.run \notin ResubmitRuns
                 ELSE it.run \in ResubmitRuns
           /\ it.faultAt \in {"otpCheck", "fetchOtp"} => verify
           /\ ~(verify /\ it.faultAt # "otpCheck") => ~it.otpError
           /\ it.fetch # "none" => verify /\ it.faultAt = "none" }

\* result.success and result.error of the processPage answer
ResultSuccess(it) == it.outcome \in {"done", "already"}
ResultError(it) ==
    CASE it.outcome = "already" -> "Already processed"
      [] it.outcome = "navError" -> "Execution context was destroyed"
      [] it.outcome = "otherError" -> "Protocol error"
      [] OTHER -> ""

\* line 391: the iteration counts as stuck
CountsAsStuck(type) == type = lastPageType \/ type = "unknown"

\* line 398
Reloads(stuck) == stuck > 0 /\ stuck % StuckReloadEvery = 0

\* lines 432: the fatal page errors
ErrorDetected(it) ==
    it.banner = "expired" \/ (it.type # "verify" /\ it.banner = "aws")

\* a resubmission loop that never finds the error resolved
ResolvedNever(run) == FALSE

\* lines 459-463: pageErrorResolved, set by the attempt after which no
\* banner shows
Resolved(run) == \E k \in 1 .. Len(run) : ~run[k]

\* how the iteration ends: [pc, err, attempts, otpRetryCount,
\* verificationMessageShown] after it
Ends(pc, err, a, o, v) == [pc |-> pc, err |-> err, attempts |-> a, otp |-> o, vms |-> v]

\* a loop that forgets to count an iteration that was cut short
GoOnUncounted(o, v) == Ends("loop", "", attempts, o, v)

\* `attempts++` and the loop test; line 582 after the loop
GoOn(o, v) ==
    IF attempts + 1 < maxAttempts
    THEN Ends("loop", "", attempts + 1, o, v)
    ELSE Ends("threw", TimeoutMsg, attempts + 1, o, v)

Throws(err, o, v) == Ends("threw", err, attempts, o, v)

\* lines 567-579: an exception taken for a navigation costs one attempt, any
\* other is thrown on
Catches(kind, o, v) == IF kind = "nav" THEN GoOn(o, v) ELSE Throws(FaultMsg, o, v)

\* lines 530-566
LoopTail(it, o, v) ==
    IF it.type = "complete" THEN Ends("complete", "", attempts, o, v)
    ELSE IF ~ResultSuccess(it) /\ ResultError(it) # ""
              /\ ResultError(it) # "Already processed"
         THEN IF it.outcome = "navError" THEN GoOn(o, v)
              ELSE Throws(ProcessingMsg, o, v)
    ELSE GoOn(o, v)

\* lines 507-527: fetchOtp and the fill of the code
Fetches(it, o, v) ==
    IF it.faultAt = "fetchOtp" THEN Catches(it.fault, o, v) ELSE LoopTail(it, o, v)

\* a verify block that fetches again without counting the rejected code
VerifiesUncounted(it) ==
    IF it.faultAt = "otpCheck"
    THEN Catches(it.fault, otpRetryCount, verificationMessageShown)
    ELSE IF ~verificationMessageShown \/ it.otpError
    THEN Fetches(it, otpRetryCount, TRUE)
    ELSE LoopTail(it, otpRetryCount, verificationMessageShown)

\* lines 474-528
Verifies(it) ==
    IF it.faultAt = "otpCheck"
    THEN Catches(it.fault, otpRetryCount, verificationMessageShown)
    ELSE IF ~verificationMessageShown \/ it.otpError
    THEN IF it.otpError
         THEN IF otpRetryCount + 1 > maxOtpRetries
              THEN Throws(OtpFailedMsg, otpRetryCount + 1, verificationMessageShown)
              ELSE Fetches(it, otpRetryCount + 1, TRUE)
         ELSE Fetches(it, otpRetryCount, TRUE)
    ELSE LoopTail(it, otpRetryCount, verificationMessageShown)

\* lines 482-507: the iteration calls fetchOtp: it is about a verification
\* page, has passed the banner check and the evaluate of line 475, the
\* polling message was not shown yet or a code was rejected, and the rejected
\* code is not one too many
FetchCalled(it) ==
    /\ it.type = "verify"
    /\ ~it.blankUrl
    /\ it.faultAt \in {"none", "fetchOtp"}
    /\ ErrorDetected(it) => Resolved(it.run)
    /\ ~verificationMessageShown \/ it.otpError
    /\ it.otpError => otpRetryCount + 1 <= maxOtpRetries

\* lines 416-584: the iteration after the stuck-page handling
Iterates(it) ==
    LET o == otpRetryCount
        v == verificationMessageShown
    IN IF it.blankUrl /\ it.type # "password" THEN Throws(BlankMsg, o, v)
       ELSE IF it.faultAt = "pageErrors" THEN Catches(it.fault, o, v)
       ELSE IF ErrorDetected(it) /\ it.faultAt = "resubmit" THEN Catches(it.fault, o, v)
       ELSE IF ErrorDetected(it) /\ ~Resolved(it.run)
            THEN Throws(IF it.banner = "expired" THEN ExpiredMsg ELSE BlockedMsg, o, v)
       ELSE IF it.type = "verify" THEN Verifies(it)
       ELSE LoopTail(it, o, v)

\* One iteration of the loop, from processPage to the loop test (and to the
\* throw after the loop).  processPage works on ctx.processedPages as in
\* ProcessPage: a page of the set is answered "already", a handled one joins it.
Iteration(it) ==
    /\ pollPc = "loop"
    /\ LET pageId == getPageId(PollUrl, it.type)
           deduped == ~skipDedup(it.type) /\ pageId \in processedPages
           stuck == IF CountsAsStuck(it.type) THEN stuckPageCount + 1 ELSE 0
           end == Iterates(it)
       IN /\ it.type # "unknown" => (it.outcome = "already") = deduped
          /\ it.faultAt = "fetchOtp" => ~verificationMessageShown \/ it.otpError
          /\ it.faultAt = "fetchOtp" /\ it.otpError => otpRetryCount + 1 <= maxOtpRetries
          /\ (it.fetch # "none") = (FetchCalled(it) /\ it.faultAt = "none")
          /\ otpExhausted' = (otpExhausted \/ it.fetch = "exhausted")
          /\ polled' = polled + 1
          /\ stuckPageCount' = stuck
          /\ reloaded' = Reloads(stuck)
          /\ processedPages' =
                IF Reloads(stuck) THEN {}
                ELSE IF it.outcome = "done" /\ it.type # "unknown"
                     THEN processedPages \cup {pageId}
                     ELSE processedPages
          /\ lastPageType' = IF it.type # lastPageType /\ it.type # "unknown"
                             THEN it.type ELSE lastPageType
          /\ pollPc' = end.pc
          /\ pollErr' = end.err
          /\ attempts' = end.attempts
          /\ otpRetryCount' = end.otp
          /\ verificationMessageShown' = end.vms
    /\ UNCHANGED <<batchVars, sigVars, proxyVars, otpVars, oidcVars, cookieVars, lowBandwidth,
                  
                   page, pageType, performed, ppCalls, ppLast>>

\* The loop on a session whose pages, until the complete page, all get the
\* classification of the first one, with every error banner and every fault
PollTypes == {"login", "verify", "unknown", "complete"}
PollIterations == IterationsOf(PollTypes)

\* the classification of the pages met so far (none: any)
Met == IF polled = 0 THEN PollTypes
       ELSE IF lastPageType = "" THEN {"unknown"} ELSE {lastPageType}

\* one iteration of a session that stays on one page until the completion
\* page shows; the iteration on the completion page has no failing page call
\* (SpecChecked has those)
PollStep(it) ==
    /\ it.type \in Met \cup {"complete"}
    /\ it.type = "complete" => it.fault = "none"
    /\ Iteration(it)
    /\ UNCHANGED <<stuckObs, iter>>

NextPoll == \E it \in PollIterations : PollStep(it)

\* The first MaxChecked iterations of the loop under an examiner who notes
\* what happened in each, on pages of any classification of PollTypes
CheckedStep(it) ==
    /\ polled < MaxChecked
    /\ Iteration(it)
    /\ iter' = it
    /\ UNCHANGED stuckObs

NextChecked == \E it \in PollIterations : CheckedStep(it)

\* The first MaxVerified iterations of a session that stays on the
\* verification page until the complete page, under the same examiner
VerifyTypes == {"verify", "complete"}
VerifyIterations == IterationsOf(VerifyTypes)

VerifiedStep(it) ==
    /\ polled < MaxVerified
    /\ Iteration(it)
    /\ iter' = it
    /\ UNCHANGED stuckObs

NextVerified == \E it \in VerifyIterations : VerifiedStep(it)

\* The whole loop of a session that stays on the verification page until the
\* complete page, on pages that show no AWS error banner and throw nothing
QuietVerifyIterations ==
    {it \in VerifyIterations :
        it.banner = "none" /\ it.fault = "none" /\ ~it.blankUrl}

NextVerifyFlow == \E it \in QuietVerifyIterations : PollStep(it)

\* The loop under an observer of its classifications, on pages of changing
\* classification that show no error banner and throw nothing.  The observer
\* counts the consecutive iterations of one classification up to
\* StuckReloadEvery + 1 ("more than StuckReloadEvery"), for MaxObserved
\* iterations
StuckTypes == {"login", "password", "unknown"}
StuckIterations ==
    {it \in IterationsOf(StuckTypes) :
        it.banner = "none" /\ it.fault = "none" /\ ~it.blankUrl}

ObservedStep(it) ==
    /\ polled < MaxObserved
    /\ Iteration(it)
    /\ prevType' = it.type
    /\ sameCount' = IF it.type # prevType THEN 1
                    ELSE IF sameCount > StuckReloadEvery THEN sameCount
                    ELSE sameCount + 1
    /\ UNCHANGED iter

NextStuck == \E it \in StuckIterations : ObservedStep(it)

\* ------------------------------------------------------------------------
\* Specification of one batch run
\* ------------------------------------------------------------------------
InitSig ==
    /\ isCleaningUp = FALSE
    /\ cleanupPc = "idle"
    /\ closing = {}
    /\ exportedFile = {}
    /\ written = {}
    /\ cleanupRuns = 0
    /\ nEvents = 0
    /\ exited = FALSE


\* the selector and its files as a fresh process finds them
InitProxy ==
    /\ proxyHost \in BOOLEAN
    /\ portCounter = NoPort
    /\ portLog = << >>
    /\ portStateFile \in {NoPort, BasePort + 1}
    /\ usedIpsSet = {}
    /\ usedIpsInitialized = FALSE
    /\ usedIpsFile \in {{}, {1}}
    /\ cpc = [c \in Callers |-> "idle"]
    /\ attempt = [c \in Callers |-> 0]
    /\ maxAttemptsArg = [c \in Callers |-> 0]
    /\ candidate = [c \in Callers |-> NoPort]
    /\ returned = [c \in Callers |-> NotReturned]
    /\ advanced = [c \in Callers |-> 0]
    /\ handedOut = [ip \in Ips |-> 0]
    /\ refused = {}

\* the selector is not exercised by the batch specifications
IdleProxy ==
    /\ proxyHost = TRUE
    /\ portCounter = NoPort
    /\ portLog = << >>
    /\ portStateFile = NoPort
    /\ usedIpsSet = {}
    /\ usedIpsInitialized = FALSE
    /\ usedIpsFile = {}
    /\ cpc = [c \in Callers |-> "idle"]
    /\ attempt = [c \in Callers |-> 0]
    /\ maxAttemptsArg = [c \in Callers |-> 0]
    /\ candidate = [c \in Callers |-> NoPort]
    /\ returned = [c \in Callers |-> NotReturned]
    /\ advanced = [c \in Callers |-> 0]
    /\ handedOut = [ip \in Ips |-> 0]
    /\ refused = {}

Init == InitBatch /\ InitSig /\ IdleProxy /\ IdleFlow

\* the steps of Worker w: its staggered start, processEmailWorker and the
\* registrationWorker it awaits
WorkerNext(w) ==
    \/ StartWorker(w)
    \/ \E ok \in BOOLEAN : CreateProfile(w, ok)
    \/ \E got \in BOOLEAN : AcquireProxy(w, got)
    \/ \E ok \in BOOLEAN : ResetProfile(w, ok)
    \/ \E ok \in BOOLEAN : ProvisionMailbox(w, ok)
    \/ \E got \in BOOLEAN : RetryProxy(w, got)
    \/ \E ok \in BOOLEAN : RetryReset(w, ok)
    \/ \E ok \in BOOLEAN : RetryMailbox(w, ok)
    \/ Sleep(w)
    \/ Call(w)
    \/ \E registered, authorized \in BOOLEAN :
          RwQuickAuth(w, quickAuth(NewClient, registered, authorized).error = "")
    \/ \E o \in {"launched", "connected", "noconnect", "failed"} : RwOpenBrowser(w, o)
    \/ \E ok \in BOOLEAN : RwNavigate(w, ok)
    \/ \E o \in {"complete", "IPBlockedError", "Error"} : RwFlow(w, o)
    \/ \E ok \in BOOLEAN : RwPollToken(w, ok)
    \/ \E ts \in ValidationOutcomes : RwValidate(w, ts)
    \/ \E o \in {"closed", "threw"} : RwClose(w, o)
    \/ \E o \in {"closed", "threw"} : RwCleanup(w, o)
    \/ RwExit(w)

NextBatch ==
    \/ \E isHealthy \in BOOLEAN : CheckHealth(isHealthy)
    \/ CleanProfiles
    \/ BatchReturn
    \/ \E w \in AllWorkers : WorkerNext(w)

Next == NextBatch

\* ------------------------------------------------------------------------
\* Specification of one batch run of a single Worker with two accounts on
\* the Roxy or the local backend, with the interrupt handlers armed
\* ------------------------------------------------------------------------
InitInterrupt ==
    /\ Init
    /\ cfg.nInputs = 1 /\ cfg.countPerEmail = 2
    /\ cfg.useEnvProxy /\ ~cfg.SKIP_PROXY_CHECK /\ cfg.provider = "freemail"

NextInterrupt == NextBatch \/ NextSig

SpecInterrupt == InitInterrupt /\ [][NextInterrupt]_vars

\* ------------------------------------------------------------------------
\* Specification of the Proxy Selector under concurrent callers
\* ------------------------------------------------------------------------
InitSelector ==
    /\ InitBatch /\ InitSig /\ InitProxy /\ IdleFlow
    /\ cfg = CHOOSE c \in Configs : TRUE

SpecProxy == InitSelector /\ [][NextProxy]_vars

\* ------------------------------------------------------------------------
\* Specification of one fetchOtp call, for every provider and every
\* behaviour of the mail backend
\* ------------------------------------------------------------------------
InitOtp ==
    /\ InitBatch /\ InitSig /\ IdleProxy /\ IdlePages /\ IdlePoll /\ IdleOidc
    /\ cfg = CHOOSE c \in Configs : TRUE
    /\ otpCall \in OtpCalls
    /\ otpPc = "called"
    /\ otpAttempt = 0
    /\ otpLog = << >>
    /\ otpResult = NoOtpResult

SpecOtp == InitOtp /\ [][NextOtp]_vars

\* ------------------------------------------------------------------------
\* Specification of one detectPageType call, for every page
\* ------------------------------------------------------------------------
InitDetect ==
    /\ InitBatch /\ InitSig /\ IdleProxy /\ IdleOtp /\ IdleProcess /\ IdlePoll /\ IdleOidc
    /\ cfg = CHOOSE c \in Configs : TRUE
    /\ page \in Pages
    /\ pageType = "none"

SpecDetect == InitDetect /\ [][NextDetect]_vars

\* ------------------------------------------------------------------------
\* Specification of the processPage calls of one session
\* ------------------------------------------------------------------------
InitPages == InitBatch /\ InitSig /\ IdleProxy /\ IdleFlow /\ cfg = CHOOSE c \in Configs : TRUE

SpecPages == InitPages /\ [][NextPages]_vars

\* ------------------------------------------------------------------------
\* Specifications of the polling loop of one session
\* ------------------------------------------------------------------------
\* registrationWorker enters the loop (lines 376-382)
InitPoll ==
    /\ InitBatch /\ InitSig /\ IdleProxy /\ IdleOtp /\ IdlePages /\ IdleOidc
    /\ cfg = CHOOSE c \in Configs : TRUE
    /\ lowBandwidth \in BOOLEAN
    /\ attempts = 0
    /\ lastPageType = ""
    /\ verificationMessageShown = FALSE
    /\ otpRetryCount = 0
    /\ stuckPageCount = 0
    /\ pollPc = "loop"
    /\ pollErr = ""
    /\ polled = 0
    /\ reloaded = FALSE
    /\ otpExhausted = FALSE
    /\ prevType = ""
    /\ sameCount = 0
    /\ iter = NoIteration

SpecPoll == InitPoll /\ [][NextPoll]_vars

InitStuck == InitPoll /\ ~lowBandwidth

SpecStuck == InitStuck /\ [][NextStuck]_vars

\* the loop is one async function that is resumed after each of its awaits
SpecVerifyFlow == InitPoll /\ [][NextVerifyFlow]_vars /\ WF_vars(NextVerifyFlow)

SpecChecked == InitPoll /\ [][NextChecked]_vars

SpecVerified == InitPoll /\ [][NextVerified]_vars

\* ------------------------------------------------------------------------
\* Specification of one AWSDeviceAuthClient whose methods are called in any
\* order, one call at a time
\* ------------------------------------------------------------------------
InitOidc ==
    /\ InitBatch /\ InitSig /\ IdleProxy /\ IdleFlow
    /\ cfg = CHOOSE c \in Configs : TRUE

SpecOidc == InitOidc /\ [][NextOidc]_vars

SpecSequential == InitSelector /\ [][NextSequential]_vars

Spec == Init /\ [][Next]_vars

\* ------------------------------------------------------------------------
\* Properties of the batch run (Spec)
\* ------------------------------------------------------------------------
\* the sessions created for account a of Worker w, one per invocation of
\* registrationWorker
SessionsOf(w, a) == {id \in DOMAIN sessions : sessions[id].account = <<w, a>>}
Accounts == AllWorkers \X (1 .. MaxCount)

\* C1: when batchRegister returns, every session of the registry, and every
\* session of the BatchProgress it returns, has status completed or error
C1_AllTerminalAtReturn ==
    bpc = "returned" =>
        /\ \A id \in DOMAIN sessions : sessions[id].status \in Terminal
        /\ \A id \in DOMAIN finalProgress.sessions :
              finalProgress.sessions[id].status \in Terminal

\* a batch that returned with a completed session and a failed one
C1_Witness ==
    /\ bpc = "returned"
    /\ \E id \in DOMAIN finalProgress.sessions :
          finalProgress.sessions[id].status = "completed"
    /\ \E id \in DOMAIN finalProgress.sessions :
          finalProgress.sessions[id].status = "error"

\* C2: a Worker invokes registrationWorker at most maxRetries + 1 = 4 times
\* for one account
C2_AtMostFourAttempts ==
    \A x \in Accounts : Cardinality(SessionsOf(x[1], x[2])) <= maxRetries + 1

\* an account whose fourth attempt was blocked as well and given up
C2_Witness ==
    \E x \in Accounts :
        /\ Cardinality(SessionsOf(x[1], x[2])) = maxRetries + 1
        /\ \A id \in SessionsOf(x[1], x[2]) :
              sessions[id].error = "IPBlockedError"
        /\ wpc[x[1]] = "done"

\* the status changes the lifecycle allows
Forward ==
    {<<"pending", "running">>, <<"running", "polling_token">>,
     <<"polling_token", "completed">>}
        \cup ({"pending", "running", "polling_token"} \X {"error"})

\* C3: a session's status moves only forward (pending, running,
\* polling_token, completed) or from a non-terminal status to error
C3_OnlyForward ==
    [][\A id \in DOMAIN sessions :
          \/ sessions'[id].status = sessions[id].status
          \/ <<sessions[id].status, sessions'[id].status>> \in Forward]_vars

\* C4: completed and error are terminal: no step changes the status of a
\* session that is completed or error
C4_TerminalIsFinal ==
    [][\A id \in DOMAIN sessions :
          sessions[id].status \in Terminal =>
              sessions'[id].status = sessions[id].status]_vars

\* C5: when registrationWorker is about to return or throw, a session that
\* opened or launched a browser has had it closed, and no browser of the
\* Worker is open when the Worker invokes registrationWorker again
C5_ClosedOnEveryExit ==
    \A w \in Workers :
        /\ wpc[w] = "rw_exit" /\ opened[w] => closeCalled[w]
        /\ wpc[w] \in {"call", "retry", "sleep"} =>
              ~roxyOpen[w] /\ w \notin activeSessions

\* ------------------------------------------------------------------------
\* Properties of an interrupted batch (SpecInterrupt)
\* ------------------------------------------------------------------------
\* C10: however many SIGINT, SIGTERM, uncaught-exception and
\* unhandled-rejection events arrive, cleanup (export, close of all browsers,
\* exit) is run once, by the first of them: it has run as soon as one event
\* has arrived, never runs a second time, and the process exits only after it
C10_CleanupOnce ==
    /\ cleanupRuns <= 1
    /\ nEvents >= 1 => cleanupRuns = 1 /\ isCleaningUp
    /\ nEvents = 0 => cleanupRuns = 0 /\ ~exited /\ exportedFile = {}
    /\ exited => cleanupRuns = 1 /\ cleanupPc = "exited"

\* two events arrived while sessions existed; the progress was exported and
\* the process has exited after a single cleanup
C10_Witness ==
    /\ nEvents = 2 /\ cleanupRuns = 1 /\ exited
    /\ Cardinality(exportedFile) = 1
    /\ DOMAIN sessions # {}

\* ------------------------------------------------------------------------
\* Properties of the Proxy Selector (SpecProxy)
\* ------------------------------------------------------------------------
Results == Reports \cup {NoResult}

\* the acceptance condition as the specification words it
Acceptable(result, readOk) ==
    /\ result # NoResult
    /\ result.isResidential
    /\ result.fraudScore <= FRAUD_SCORE_THRESHOLD
    /\ result.ip \notin initUsedIps(readOk)

\* caller c leaves the await of the fraud check in this step
Resumes(c) ==
    /\ cpc[c] = "checking"
    /\ cpc'[c] = "returned" \/ attempt'[c] # attempt[c]

C7_NoIpTwice ==
    /\ \A ip \in Ips : handedOut[ip] <= 1
    /\ \A ip \in Ips : handedOut[ip] = 1 => ip \in usedIpsSet
    /\ refused \subseteq usedIpsSet

\* two calls are in flight at once; an IP was returned to one caller and a
\* later candidate reporting the same IP was refused
C7_Witness ==
    \E ip \in Ips, c, d \in Callers :
        /\ c # d
        /\ handedOut[ip] = 1 /\ ip \in refused
        /\ returned[c] = ReturnedProxy(candidate[c], ip)
        /\ cpc[d] = "checking" /\ attempt[d] = 1

NewCandidate(c) ==
    /\ cpc'[c] = "checking"
    /\ cpc[c] = "idle" \/ attempt'[c] # attempt[c]
DirectPort(c) == cpc[c] = "idle" /\ returned'[c].kind = "proxy"

C9_ExhaustsAttempts ==
    [][\A c \in Callers :
          /\ advanced'[c] <= maxAttemptsArg'[c]
          /\ attempt'[c] <= maxAttemptsArg'[c]
          /\ proxyHost /\ returned'[c] = ReturnedNull =>
                advanced'[c] = maxAttemptsArg'[c] /\ attempt'[c] = maxAttemptsArg'[c]
          /\ cpc[c] = "checking" /\ returned'[c] = ReturnedNull =>
                /\ usedIpsSet' \in {usedIpsSet, usedIpsSet \cup usedIpsFile}
                /\ usedIpsInitialized => usedIpsSet' = usedIpsSet
                /\ usedIpsFile' = usedIpsFile
                /\ handedOut' = handedOut]_vars

\* a call with maxAttempts = 2 returned none after two candidates
C9_Witness ==
    \E c \in Callers :
        /\ proxyHost /\ returned[c] = ReturnedNull
        /\ maxAttemptsArg[c] = 2 /\ advanced[c] = 2 /\ attempt[c] = 2

\* caller c calls getNextProxy with a proxy host configured: of the calls of
\* the selector only getNextProxy returns a proxy at once
PlainRotation(c) ==
    /\ proxyHost
    /\ cpc[c] = "idle"
    /\ cpc'[c] = "returned"

\* the counter is raised by one from the value it holds or, when it is not
\* loaded yet, from a value initPortCounter can load
RaisedByOne ==
    IF portCounter # NoPort THEN portCounter' = portCounter + 1
    ELSE IF portStateFile = NoPort THEN portCounter' = BasePort + 1
    ELSE portCounter' \in {BasePort + 1, portStateFile + 1}

C11_ExitAfterSnapshotAndClose ==
    exited =>
        /\ written = exportedFile
        /\ \A w \in Workers : ~roxyOpen[w]
        /\ activeSessions = {}

\* C12: every account of the batch has a record with its disposition in the
\* exported results (accounts for valid, filtered for suspended, expired and
\* invalid, failures for error): in the results exported from the progress
\* batchRegister returned, and in the results cleanup exported
C12_EveryAccountExported ==
    LET recorded(file, x) ==
            \E id \in file.accounts \cup file.filtered.suspended
                        \cup file.filtered.expired \cup file.filtered.invalid
                        \cup file.failures :
                sessions[id].account = x
        batch == Workers \X (1 .. cfg.countPerEmail)
    IN /\ bpc = "returned" =>
             \A x \in batch : recorded(exportResults(finalProgress), x)
       /\ \A file \in exportedFile : \A x \in batch : recorded(file, x)

\* the buckets exportResults makes of a progress are pairwise disjoint and
\* their sizes add up to the number of sessions of the progress
Partitions(progress) ==
    LET file == exportResults(progress)
        buckets == <<file.accounts, file.filtered.suspended,
                     file.filtered.expired, file.filtered.invalid,
                     file.failures>>
    IN /\ \A i, j \in 1 .. 5 : i # j => buckets[i] \cap buckets[j] = {}
       /\ file.summary.valid + file.summary.suspended
             + file.summary.expired + file.summary.invalid
             + file.summary.failed = Cardinality(DOMAIN progress.sessions)

\* C13: for the progress batchRegister returns and for the progress cleanup
\* passes to exportResults, the buckets valid, suspended, expired, invalid
\* and failed are pairwise disjoint and their sizes add up to the number of
\* sessions of the progress
C13_BucketsPartition ==
    /\ [](bpc = "returned" => Partitions(finalProgress))
    /\ [][exportedFile' # exportedFile =>
             Partitions(getProgress(sessions, totalAccounts))]_vars

\* the completed sessions of a progress whose token has this status
CompletedAs(progress, tokenStatus) ==
    {id \in DOMAIN progress.sessions :
        /\ progress.sessions[id].status = "completed"
        /\ progress.sessions[id].tokenStatus = tokenStatus}

\* what C24 says of the results exported from a progress
ValidOnly(progress) ==
    LET file == exportResults(progress)
        ss == progress.sessions
    IN /\ file.accounts = {id \in DOMAIN ss : ss[id].status = "completed"
                              /\ ss[id].token /\ ss[id].tokenStatus = "valid"}
       /\ CompletedAs(progress, "suspended") \subseteq file.filtered.suspended
       /\ CompletedAs(progress, "expired") \subseteq file.filtered.expired
       /\ CompletedAs(progress, "invalid") \cup CompletedAs(progress, "error")
             \subseteq file.filtered.invalid
       /\ \A id \in DOMAIN ss :
             ss[id].status = "completed" /\ ss[id].tokenStatus # "valid"
                => id \notin file.accounts
       /\ file.uploads \subseteq file.accounts

\* C24: in the results exported from the progress batchRegister returns, and
\* in those cleanup exports, accounts holds exactly the sessions that are
\* completed with a token of status valid; a completed session whose token
\* status is suspended, expired, invalid or error is in filtered and not in
\* accounts; and only sessions of accounts are uploaded
C24_OnlyValidExported ==
    /\ [](bpc = "returned" => ValidOnly(finalProgress))
    /\ [][exportedFile' # exportedFile =>
             /\ ValidOnly(getProgress(sessions, totalAccounts))
             /\ exportedFile' = {exportResults(getProgress(sessions, totalAccounts))}]_vars

\* the batch returned a valid account and one whose token is suspended
C24_Witness ==
    /\ bpc = "returned"
    /\ Cardinality(exportResults(finalProgress).accounts) = 1
    /\ Cardinality(exportResults(finalProgress).filtered.suspended) = 1
    /\ exportResults(finalProgress).uploads # {}

\* ------------------------------------------------------------------------
\* Properties of the start of the batch (Spec)
\* ------------------------------------------------------------------------
\* no Worker has started: no browser profile, no proxy, no session, and the
\* Proxy Selector is as the process found it
NothingStarted ==
    /\ \A w \in AllWorkers :
          /\ wpc[w] = "idle" /\ browserId[w] = "" /\ accountProxy[w] = null
          /\ nextId[w] = 0 /\ ~roxyOpen[w]
    /\ sessions = << >>
    /\ activeSessions = {}
    /\ IdleProxy

\* C14: in roxy mode a health check that fails makes batchRegister fail; a
\* failed batch has started no Worker (no browser profile created, no proxy
\* acquired, no session created) and does nothing afterwards
C14_FailsBeforeAnyWork ==
    /\ [][cfg.BROWSER_MODE = "roxy" /\ CheckHealth(FALSE) => bpc' = "failed"]_vars
    /\ [](bpc = "failed" => NothingStarted)
    /\ [][bpc = "failed" => UNCHANGED <<batchVars, proxyVars, flowVars>>]_vars

\* a batch of two Workers that failed at the health check
C14_Witness ==
    /\ bpc = "failed" /\ cfg.BROWSER_MODE = "roxy" /\ cfg.nInputs = MaxInputs

\* ------------------------------------------------------------------------
\* Properties of the Workers of one batch (Spec)
\* ------------------------------------------------------------------------
\* C15: batchRegister returns only after every Worker has returned or
\* thrown.  Until then a Worker that has not finished can always take its
\* next step, whatever the other Workers did (the Worker whose staggered
\* start is next can start); no step moves two Workers; and a Worker that
\* created its profile and returned has gone through all of its accounts
C15_WorkersIndependent ==
    /\ [](bpc = "returned" => \A w \in Workers : WorkerSettled(w))
    /\ [](\A v \in Workers :
            /\ bpc = "running" /\ ~WorkerSettled(v)
            /\ wpc[v] = "idle" => \A u \in Workers : u < v => wpc[u] # "idle"
            => ENABLED WorkerNext(v))
    /\ [][\A v, u \in Workers :
            v # u /\ <<wpc[v], acct[v], retryCount[v]>>'
                        # <<wpc[v], acct[v], retryCount[v]>>
            => <<wpc[u], acct[u], retryCount[u], browserId[u], cur[u]>>'
                 = <<wpc[u], acct[u], retryCount[u], browserId[u], cur[u]>>]_vars
    /\ [](\A v \in Workers :
            wpc[v] = "done" /\ (cfg.BROWSER_MODE = "roxy" => browserId[v] # "")
            => acct[v] = cfg.countPerEmail)

\* the batch returned after one Worker threw, or could not create its
\* profile, and another one completed the session of its account
C15_Witness ==
    /\ bpc = "returned"
    /\ \E w, v \in Workers :
          /\ wpc[w] = "threw" \/ (cfg.BROWSER_MODE = "roxy" /\ browserId[w] = "")
          /\ v # w /\ wpc[v] = "done"
          /\ \E id \in DOMAIN sessions :
                sessions[id].account = <<v, cfg.countPerEmail>>
                    /\ sessions[id].status = "completed"

\* the sessions of Worker w that are not terminal
Unfinished(w) ==
    {id \in DOMAIN sessions : id[1] = w /\ sessions[id].status \notin Terminal}

\* the browser profile a Worker with a session under way works on: its Roxy
\* profile, or in local mode the user data directory profileName-sessionId
UsedProfile(w) ==
    IF cfg.BROWSER_MODE = "roxy" THEN <<browserId[w], <<0, 0>>>>
    ELSE <<profileName(w), cur[w]>>

\* C16: a Worker has at most one session that is not terminal; a session is
\* created (for the next account or for a retry) only when all earlier
\* sessions of its Worker are terminal, and for an account not before theirs
\* (account order 1..count); two Workers that have a session under way work
\* on different browser profiles
C16_OneSessionPerWorker ==
    /\ [](\A w \in Workers : Cardinality(Unfinished(w)) <= 1)
    /\ [][\A id \in DOMAIN sessions' \ DOMAIN sessions :
            /\ sessions'[id].account[2] \in 1 .. cfg.countPerEmail
            /\ \A old \in DOMAIN sessions :
                  old[1] = id[1] =>
                      /\ sessions[old].status \in Terminal
                      /\ sessions[old].account[2] <= sessions'[id].account[2]]_vars
    /\ [](\A w, v \in Workers :
            w # v /\ Unfinished(w) # {} /\ Unfinished(v) # {}
            => UsedProfile(w) # UsedProfile(v))

\* two Workers on the Roxy backend have sessions under way at the same time,
\* one of them the session of a retry
C16_Witness ==
    \E w, v \in Workers :
        /\ w # v /\ cfg.BROWSER_MODE = "roxy"
        /\ Unfinished(w) # {} /\ Unfinished(v) # {}
        /\ \E id \in Unfinished(w) : id[2] >= 2

\* ------------------------------------------------------------------------
\* Properties of the retry loop and of the accounts of a Worker (Spec)
\* ------------------------------------------------------------------------
\* the Worker is at the head of a retry: lines 167-193
RetryPrep == {"retry", "retryReset", "retryMailbox"}

\* C26: when an attempt has ended, the Worker goes on to another attempt for
\* the same account exactly if the attempt raised IPBlockedError and fewer
\* than maxRetries retries are used, and a Worker that goes on to another
\* attempt starts it; after any other end the Worker leaves the account
C26_RetriesIffBlocked ==
    [][\A w \in Workers :
          /\ wpc[w] = "rw_exit" /\ wpc'[w] # "rw_exit" =>
                IF rwErr[w] = "IPBlockedError" /\ retryCount[w] < maxRetries
                THEN wpc'[w] \in RetryPrep \cup {"call"} /\ acct'[w] = acct[w]
                ELSE wpc'[w] = EndBodyPc(w)
          /\ wpc[w] \in RetryPrep =>
                wpc'[w] \in RetryPrep \cup {"call"} /\ acct'[w] = acct[w]]_vars

\* C27: a retry (an attempt with retryCount > 0) is started only from the
\* head of a retry iteration, where a new proxy has been acquired and, after
\* it, the browser profile has been reset: the Worker enters the head when it
\* decides to retry, takes the proxy first, resets the profile next, and
\* invokes registrationWorker only when the reset is done
C27_FreshProxyAndResetBeforeRetry ==
    [][\A w \in Workers :
          /\ wpc[w] = "rw_exit" /\ retryCount'[w] > retryCount[w] =>
                wpc'[w] = "retry"
          /\ wpc[w] = "retry" /\ wpc'[w] \in RetryPrep \cup {"call"} =>
                accountProxy'[w] = "proxy" /\ wpc'[w] \in {"retry", "retryReset"}
          /\ wpc'[w] = "call" /\ wpc[w] # "call" /\ retryCount[w] > 0 =>
                wpc[w] \in {"retryReset", "retryMailbox"}]_vars

\* the accounts of Worker w whose loop iteration has begun
Attempted(w) == IF wpc[w] \in {"idle", "profile"} THEN {} ELSE 1 .. acct[w]

\* C28: a Worker one of whose accounts has a session in error goes on to
\* every later account: when the Worker has finished, the iteration of each
\* of its accounts has begun.  A step of one Worker leaves the sessions and
\* the position of every other Worker as they were
C28_ErrorsDoNotStopWorker ==
    /\ [](\A w \in Workers :
             (\E id \in DOMAIN sessions :
                 sessions[id].account[1] = w /\ sessions[id].status = "error") =>
                 (WorkerSettled(w) => Attempted(w) = 1 .. cfg.countPerEmail))
    /\ [][\A w \in Workers :
             wpc'[w] # wpc[w] =>
                 \A v \in Workers \ {w} :
                     /\ wpc'[v] = wpc[v] /\ acct'[v] = acct[v]
                     /\ \A id \in DOMAIN sessions :
                           id[1] = v => sessions'[id] = sessions[id]]_vars

\* with proxies configured, Worker w leaves the top of an iteration without
\* a proxy: the acquisition returned none
SkipsAccount(w) ==
    /\ cfg.useEnvProxy
    /\ wpc[w] = "account"
    /\ <<wpc'[w], acct'[w]>> # <<wpc[w], acct[w]>>
    /\ accountProxy'[w] = null

\* C29: when proxies are configured and the acquisition for account i returns
\* none, the step creates no session and opens no browser, account i has no
\* session, the Worker is not rejected and is at the top of iteration i+1 (or
\* has returned when i is its last account).  Sessions are created for the
\* current account of a Worker only and its account index never decreases,
\* so account i never gets a session
C29_NoProxySkipsAccount ==
    [][\A w \in Workers :
          /\ SkipsAccount(w) =>
                /\ sessions' = sessions /\ nextId' = nextId
                /\ roxyOpen' = roxyOpen /\ activeSessions' = activeSessions
                /\ browser' = browser /\ localSession' = localSession
                /\ SessionsOf(w, acct[w]) = {}
                /\ IF acct[w] < cfg.countPerEmail
                   THEN wpc'[w] = "account" /\ acct'[w] = acct[w] + 1
                   ELSE wpc'[w] = "done" /\ acct'[w] = acct[w]
          /\ acct'[w] >= acct[w]
          /\ \A id \in DOMAIN sessions' \ DOMAIN sessions :
                id[1] = w => wpc[w] = "call" /\ sessions'[id].account = <<w, acct[w]>>]_vars

\* with proxies configured and gmail addresses, account 1 of Worker 0 was
\* skipped and the Worker has invoked registrationWorker for account 2
C29_Witness ==
    /\ cfg.useEnvProxy /\ cfg.provider = "gmail"
    /\ acct[0] = 2
    /\ SessionsOf(0, 1) = {}
    /\ SessionsOf(0, 2) # {}

\* ------------------------------------------------------------------------
\* Properties of OTP retrieval (SpecOtp)
\* ------------------------------------------------------------------------
\* the polls and the observer calls of the call so far
OtpPolls == SelectSeq(otpLog, LAMBDA e : e.ev = "poll")
OtpObserved == SelectSeq(otpLog, LAMBDA e : e.ev = "onPoll")

\* C17: when poll k is the first poll that yields a code, the retriever has
\* returned success with that code; it has made exactly k polls and exactly
\* k observer calls, numbered 1..k, each right before the poll of its
\* attempt; and it makes no poll after poll k
C17_ReturnsAtFirstCode ==
    \A k \in 1 .. Len(OtpPolls) :
        OtpPolls[k].kind = "code" =>
            /\ k <= otpCall.maxAttempts
            /\ Len(OtpPolls) = k /\ Len(OtpObserved) = k /\ Len(otpLog) = 2 * k
            /\ \A i \in 1 .. k :
                  /\ otpLog[2 * i - 1].ev = "onPoll" /\ otpLog[2 * i - 1].attempt = i
                  /\ otpLog[2 * i].ev = "poll" /\ otpLog[2 * i].attempt = i
            /\ otpPc = "returned"
            /\ otpResult = [success |-> TRUE, code |-> OtpPolls[k].code, error |-> ""]

\* the second of three allowed polls yielded the second code, after a poll
\* that threw
C17_Witness ==
    /\ otpCall.maxAttempts = MaxOtpAttempts
    /\ Len(OtpPolls) = 2
    /\ OtpPolls[1].kind = "error"
    /\ OtpPolls[2].kind = "code" /\ OtpPolls[2].code = MaxCodes
    /\ otpPc = "returned" /\ otpResult.success

\* C18: a fetchOtp call never ends in an exception; it makes at most
\* maxAttempts polls, and what it returns is a success with a code or a
\* failure with an error text
C18_AlwaysReturnsValue ==
    /\ otpPc # "threw"
    /\ Len(OtpPolls) <= otpCall.maxAttempts
    /\ otpPc = "returned" =>
          \/ otpResult.success /\ otpResult.code \in Codes
          \/ ~otpResult.success /\ otpResult.error # ""

\* ------------------------------------------------------------------------
\* Properties of page classification (SpecDetect)
\* ------------------------------------------------------------------------
\* the priority order of the page types
PriorityOrder ==
    <<"device_confirm", "complete", "allow_access", "verify", "password",
      "signup", "name", "login">>

\* page p shows an indicator of type t: one of the URL substrings or DOM
\* findings for which detectPageType answers t
Indicates(p, t) ==
    CASE t = "device_confirm" ->
            (p.urlAwsapps /\ p.urlDeviceCode) \/ p.hasConfirmBtn \/ p.textConfirm
      [] t = "complete" -> p.textComplete
      [] t = "allow_access" -> p.hasAllowBtn \/ (p.textAllow /\ p.urlAwsapps)
      [] t = "verify" -> p.urlVerify \/ p.textVerify
      [] t = "password" -> p.urlRegistrationCode \/ p.domPassword
      [] t = "signup" ->
            (p.hasNameInput /\ p.hasEmailInput) \/ (p.urlEnterEmail /\ p.hasNameInput)
      [] t = "name" -> p.urlSignupStart \/ (p.hasNameInput /\ ~p.hasEmailInput)
      [] t = "login" -> (p.urlLoginHandle \/ p.textGetStarted) /\ p.hasEmailInput

\* C19: detectPageType answers the first type of the priority order of which
\* the page shows an indicator, and unknown when it shows none
C19_FirstMatchInOrder ==
    pageType # "none" =>
        LET matching == {i \in 1 .. Len(PriorityOrder) : Indicates(page, PriorityOrder[i])}
        IN IF matching = {} THEN pageType = "unknown"
           ELSE pageType = PriorityOrder[CHOOSE i \in matching : \A j \in matching : i <= j]

\* ------------------------------------------------------------------------
\* Properties of page processing (SpecPages)
\* ------------------------------------------------------------------------
\* C20: a processPage call that classifies a (form page type, normalized
\* URL) pair whose action has succeeded since the set was last cleared runs
\* no handler and answers "Already processed"; for a pair whose action has
\* not succeeded since then (never tried, failed, or cleared) the handler is
\* run; and a pair whose action failed is not marked by that call
C20_ProcessedOnce ==
    [][ppCalls' = ppCalls + 1
         /\ ppLast'.pageId[1] \in {"login", "signup", "name", "verify", "password"}
       => LET id == ppLast'.pageId
          IN /\ id \in performed =>
                   /\ ~ppLast'.acted
                   /\ ppLast'.result = [success |-> TRUE, pageType |-> id[1],
                                        error |-> "Already processed"]
                   /\ processedPages' = processedPages
             /\ id \notin performed => ppLast'.acted
             /\ ppLast'.acted /\ ~ppLast'.result.success =>
                   id \notin processedPages']_vars

\* the second call classified a password page at the URL "#a", whose action
\* had succeeded, and answered "Already processed"
C20_Witness ==
    /\ ppCalls = 2
    /\ ppLast.pageId \in performed /\ ppLast.pageId \in processedPages
    /\ ppLast.pageId[1] = "password" /\ ppLast.pageId[2] = <<"#", "a", "#", "a">>
    /\ ~ppLast.acted /\ ppLast.result.error = "Already processed"

\* C21: every processPage call that classifies the page as device_confirm or
\* allow_access runs the click handler of the type, also when the action of
\* the same (type, URL) pair succeeded before and the pair is in the set
C21_ButtonPagesAlwaysClicked ==
    [][ppCalls' = ppCalls + 1
         /\ ppLast'.pageId[1] \in {"device_confirm", "allow_access"}
       => /\ ppLast'.acted
          /\ ppLast'.result.error # "Already processed"]_vars

\* the second call classified an allow_access page whose click had succeeded
\* in the first call, and clicked again
C21_Witness ==
    /\ ppCalls = 2
    /\ ppLast.pageId[1] = "allow_access"
    /\ ppLast.pageId \in performed /\ ppLast.pageId \in processedPages
    /\ Cardinality(processedPages) = 1
    /\ ppLast.acted /\ ppLast.result.success

\* ------------------------------------------------------------------------
\* Properties of the polling loop (SpecStuck, SpecPoll)
\* ------------------------------------------------------------------------
\* C22: the iteration in which processPage answers the same classification
\* for the 20th consecutive time reloads the page and empties the set of
\* processed pages; an iteration reloads only when its classification has
\* been answered in at least 20 consecutive iterations (a different
\* classification restarts the count at 1)
C22_ReloadAtTwentieth ==
    [][polled' = polled + 1 =>
          /\ sameCount' = StuckReloadEvery => reloaded' /\ processedPages' = {}
          /\ reloaded' => sameCount' >= StuckReloadEvery]_vars

\* the iteration ran maxPageErrorRetries resubmission attempts and each of
\* them left an error banner showing
AllAttemptsFailed(it) ==
    /\ it.faultAt \notin {"pageErrors", "resubmit"}
    /\ Len(it.run) = maxPageErrorRetries
    /\ \A k \in 1 .. maxPageErrorRetries : it.run[k]

\* attempt k of the iteration left no banner showing
Cleared(it, k) ==
    /\ it.faultAt # "pageErrors"
    /\ k \in 1 .. Len(it.run) /\ ~it.run[k]

\* the iteration without the banner and its resubmissions
Quiet(it) == [it EXCEPT !.banner = "none", !.run = NoRun]

\* C23: an iteration raises IPBlockedError exactly when it detected the
\* expired-session banner, or the generic-error banner on a page that is not
\* a verification page, and made 5 resubmission attempts that each left an
\* error banner showing.  When one of the at most 5 attempts clears the
\* banners it is the last attempt made and the check raises nothing: the
\* iteration goes on as one that detected no banner
C23_BlockedIffFiveFailed ==
    [][polled' = polled + 1 =>
          /\ (pollPc' = "threw" /\ IPBlocked(pollErr'))
                = (ErrorDetected(iter') /\ AllAttemptsFailed(iter'))
          /\ pollErr' = ExpiredMsg => iter'.banner = "expired"
          /\ \A k \in 1 .. maxPageErrorRetries :
                ErrorDetected(iter') /\ Cleared(iter', k) =>
                    /\ Len(iter'.run) = k
                    /\ <<pollPc', pollErr', attempts', otpRetryCount',
                          verificationMessageShown'>>
                         = LET end == Iterates(Quiet(iter'))
                           IN <<end.pc, end.err, end.attempts, end.otp, end.vms>>]_vars

\* the second iteration of the loop threw IPBlockedError, on an unclassified
\* page that showed the generic-error banner through five resubmissions
C23_Witness ==
    /\ pollPc = "threw" /\ pollErr = BlockedMsg
    /\ polled = MaxChecked /\ attempts = MaxChecked - 1
    /\ iter.type = "unknown" /\ iter.banner = "aws"
    /\ Len(iter.run) = maxPageErrorRetries


\* C30: processPage is invoked at most maxAttempts times (120, or 240 in
\* low-bandwidth mode): while the loop runs, every invocation so far has been
\* counted and the counter is below maxAttempts; every iteration leaves the
\* loop with the counter as it was (complete page, or an error thrown) or
\* raises the counter by exactly one; and the counter reaches maxAttempts
\* only in a session that ends with the flow-timeout error
C30_LoopBounded ==
    /\ [](/\ polled <= 240 /\ (~lowBandwidth => polled <= 120)
          /\ polled <= maxAttempts /\ attempts <= maxAttempts
          /\ pollPc = "loop" => polled = attempts /\ attempts < maxAttempts
          /\ attempts = maxAttempts => pollPc = "threw" /\ pollErr = TimeoutMsg
          /\ pollPc = "complete" => pollErr = "")
    /\ [][polled' = polled + 1 =>
             \/ pollPc' \in {"complete", "threw"} /\ attempts' = attempts
             \/ /\ attempts' = attempts + 1
                /\ pollPc' = (IF attempts' < maxAttempts THEN "loop" ELSE "threw")]_vars

\* a low-bandwidth session has invoked processPage 240 times without meeting
\* the complete page and has ended with the flow-timeout error
C30_Witness ==
    /\ lowBandwidth
    /\ polled = 240 /\ attempts = 240
    /\ pollPc = "threw" /\ pollErr = TimeoutMsg

C32_ExhaustedEndsInError ==
    otpExhausted ~> (pollPc = "threw")

\* ------------------------------------------------------------------------
\* Properties of one iteration of the polling loop (SpecChecked)
\* ------------------------------------------------------------------------
\* a navigation or destroyed-context error arose in the iteration, inside
\* processPage or in a page call of the loop itself, and nothing else went
\* wrong in it: no other exception and no AWS error banner
NavigationError(it) ==
    /\ it.outcome = "navError" \/ it.fault = "nav"
    /\ it.outcome # "otherError" /\ it.fault # "other"
    /\ it.banner = "none"

\* C33: an iteration in which a navigation or destroyed-context error arose
\* costs one attempt and the loop goes on (unless that attempt was the last)
C33_NavigationErrorsTolerated ==
    [][polled' = polled + 1 /\ NavigationError(iter') =>
          /\ attempts' = attempts + 1
          /\ pollPc' = (IF attempts' < maxAttempts THEN "loop" ELSE "threw")
          /\ pollPc' = "threw" => pollErr' = TimeoutMsg]_vars

\* ------------------------------------------------------------------------
\* Properties of the end of a session (Spec)
\* ------------------------------------------------------------------------
\* C34: validateToken answers one of the five statuses for every response
\* and for a failed request, and each of the five is answered for some
\* response.  The step of registrationWorker that follows the retrieval of
\* the token records the token and that status and sets the session
\* completed, whatever the status, and goes on to close the browser with no
\* error raised
C34_ValidationNeverGates ==
    /\ [](ValidationOutcomes = TokenStatuses)
    /\ [][\A w \in Workers :
             wpc[w] = "rw_validate" /\ wpc'[w] # "rw_validate" =>
                 /\ sessions[cur[w]].status = "polling_token"
                 /\ sessions'[cur[w]].status = "completed"
                 /\ sessions'[cur[w]].token
                 /\ sessions'[cur[w]].tokenStatus \in TokenStatuses
                 /\ sessions'[cur[w]].error = sessions[cur[w]].error
                 /\ wpc'[w] = "rw_close" /\ rwErr'[w] = null]_vars

\* a session whose validation request failed is completed with its token
C34_Witness ==
    \E id \in DOMAIN sessions :
        /\ sessions[id].status = "completed"
        /\ sessions[id].token
        /\ sessions[id].tokenStatus = "error"

\* C35: the handshake sends the client registration and then the device
\* authorization, and nothing after a call that failed; deviceAuthorize sends
\* nothing and throws while the client is not registered, getToken sends
\* nothing and throws unless both handshake calls have succeeded; the
\* handshake of a session is made while no browser is open, and a response
\* that is not ok to either call ends the session in error with no browser
\* opened
C35_HandshakeFirst ==
    /\ [](\A registered, authorized \in BOOLEAN :
            LET out == quickAuth(NewClient, registered, authorized) IN
              /\ out.sent = (IF registered THEN <<"register", "authorize">>
                             ELSE <<"register">>)
              /\ (out.error = "") = (registered /\ authorized)
              /\ out.error = "" => out.client.clientInfo /\ out.client.authInfo)
    /\ [](\A c \in Clients, ok \in BOOLEAN :
            ~c.clientInfo =>
               /\ deviceAuthorize(c, ok).error = RegisterFirstMsg
               /\ deviceAuthorize(c, ok).sent = << >>
               /\ deviceAuthorize(c, ok).client = c)
    /\ [](\A c \in Clients, response \in TokenResponses :
            ~(c.clientInfo /\ c.authInfo) =>
               /\ getToken(c, response).error = QuickAuthFirstMsg
               /\ getToken(c, response).sent = << >>)
    /\ [](\A w \in Workers :
            wpc[w] = "rw_auth" =>
               ~opened[w] /\ browser[w] = null /\ localSession[w] = null)
    /\ [][\A w \in Workers :
            wpc[w] = "rw_auth" /\ wpc'[w] # "rw_auth" =>
               \/ /\ wpc'[w] = "rw_open" /\ rwErr'[w] = null
                  /\ sessions'[cur[w]] = sessions[cur[w]]
               \/ /\ wpc'[w] = "rw_cleanup" /\ rwErr'[w] # null
                  /\ sessions'[cur[w]].status = "error"
                  /\ ~sessions'[cur[w]].token
                  /\ ~opened'[w] /\ browser'[w] = null
                  /\ localSession'[w] = null]_vars

\* the handshake of a session has failed: the session is in error and no
\* browser was opened for it
C35_Witness ==
    \E w \in Workers :
        /\ wpc[w] = "rw_cleanup" /\ rwErr[w] = "Error"
        /\ ~opened[w] /\ browser[w] = null
        /\ sessions[cur[w]].status = "error"

\* ------------------------------------------------------------------------
\* Properties of the OIDC client (SpecOidc)
\* ------------------------------------------------------------------------
\* a step of pollToken: CallClient changes neither oidcPc nor pollSent
PollTokenStep ==
    /\ oidcPc \in {"idle", "polling"}
    /\ oidcPc' # oidcPc \/ pollSent' # pollSent

\* C36: a step of pollToken whose loop test finds the timeout not elapsed
\* makes one token request: on authorization pending it waits and goes on
\* polling, on a token it returns, on any other answer it throws at once; a
\* step whose loop test finds the timeout elapsed makes no request and
\* throws the timeout error; pollToken returns only with a token, and makes
\* at most as many requests as the timeout has poll intervals
C36_PollsUntilTokenOrTimeout ==
    /\ [](oidcPc = "returned" => oidcOut.result = "token" /\ oidcOut.error = "")
    /\ [](oidcPc = "threw" => oidcOut.result = "" /\ oidcOut.error # "")
    /\ [](pollSent <= pollTimeout)
    /\ [][PollTokenStep =>
              /\ pollElapsed < pollTimeout' =>
                    /\ pollSent' = pollSent + 1
                    /\ oidcOut'.sent = (IF oidcClient.clientInfo /\ oidcClient.authInfo
                                        THEN <<"token">> ELSE << >>)
                    /\ oidcOut'.result = "null" =>
                          oidcPc' = "polling" /\ pollElapsed' > pollElapsed
                    /\ oidcOut'.result = "token" => oidcPc' = "returned"
                    /\ oidcOut'.error # "" =>
                          /\ oidcPc' = "threw"
                          /\ oidcOut'.error \in {TokenFailedMsg, QuickAuthFirstMsg}
              /\ pollElapsed >= pollTimeout' =>
                    /\ oidcPc' = "threw"
                    /\ oidcOut'.error = PollTimeoutMsg
                    /\ oidcOut'.sent = << >>
                    /\ pollSent' = pollSent]_vars

\* pollToken has thrown the timeout error after two requests that were
\* answered authorization pending
C36_Witness ==
    /\ oidcPc = "threw" /\ oidcOut.error = PollTimeoutMsg
    /\ pollSent >= 2 /\ pollElapsed >= pollTimeout

\* ------------------------------------------------------------------------
\* Properties of the cookie banner (SpecPages)
\* ------------------------------------------------------------------------
\* C37: a session looks for the cookie banner in its first processPage call,
\* whatever the page is classified as, and in no later call
C37_CookieDismissalOnce ==
    /\ [](cookieTried <= 1)
    /\ [][ppCalls' = ppCalls + 1 =>
            cookieTried' = (IF ppCalls = 0 THEN 1 ELSE cookieTried)]_vars

\* what processPage does instead: every call looks for the banner until one
\* call has clicked it away, and no call after that one
CookieTriedUntilDismissed ==
    /\ [](cookieTried <= ppCalls)
    /\ [](~cookiePopupHandled => cookieTried = ppCalls)
    /\ [][ppCalls' = ppCalls + 1 =>
            /\ cookieTried' = (IF cookiePopupHandled THEN cookieTried ELSE cookieTried + 1)
            /\ cookiePopupHandled => cookiePopupHandled']_vars

\* ------------------------------------------------------------------------
\* Properties of the ports of concurrent callers (SpecProxy)
\* ------------------------------------------------------------------------
\* the ports of a log
Ports(log) == {log[i] : i \in 1 .. Len(log)}

\* C38: in one process, whatever the interleaving of the callers of
\* getNextProxy and getNextValidProxy, the ports handed out since the counter
\* was loaded (or reset by resetPortCounter, which no Worker calls) are
\* pairwise different: every candidate and every port of getNextProxy is the
\* newest entry of the log, each one above the one before
C38_PortsDistinct ==
    /\ [](\A i, j \in 1 .. Len(portLog) : i < j => portLog[i] < portLog[j])
    /\ [](portLog # << >> => portCounter = portLog[Len(portLog)] + 1)
    /\ [][\A c \in Callers :
            /\ NewCandidate(c) =>
                  /\ portLog' = Append(portLog, candidate'[c])
                  /\ \A d \in Callers \ {c} :
                        cpc[d] = "checking" /\ candidate[d] \in Ports(portLog)
                           => candidate[d] # candidate'[c]
            /\ DirectPort(c) => portLog' = Append(portLog, returned'[c].port)]_vars

\* two callers are checking their candidates at the same time, each with the
\* port that the counter held when its iteration began
C38_Witness ==
    /\ Len(portLog) = 2
    /\ \E c, d \in Callers :
          /\ c # d
          /\ cpc[c] = "checking" /\ candidate[c] = portLog[1]
          /\ cpc[d] = "checking" /\ candidate[d] = portLog[2]

\* ------------------------------------------------------------------------
\* Properties of the progress and of the registry (Spec)
\* ------------------------------------------------------------------------
\* C39: the progress that batchRegister returns counts every account of the
\* batch as registered or failed and has the status completed; the registry
\* never holds more sessions than the batch has accounts, and never more
\* completed and failed sessions together
C39_ProgressAddsUp ==
    /\ [](bpc = "returned" =>
            /\ finalProgress.totalRegistered + finalProgress.totalFailed
                  = finalProgress.totalTarget
            /\ finalProgress.status = "completed")
    /\ [](Cardinality(DOMAIN sessions) <= totalAccounts)
    /\ [](getCompletedCount(sessions) + getFailedCount(sessions) <= totalAccounts)

\* C40: in every state of the registry a session has a token exactly when
\* its status is completed, and a validation status exactly when it has a
\* token; a session in error has an error message and no token
C40_TokenIffCompleted ==
    \A id \in DOMAIN sessions :
        /\ sessions[id].token <=> sessions[id].status = "completed"
        /\ sessions[id].tokenStatus # null <=> sessions[id].token
        /\ sessions[id].status = "error" =>
              sessions[id].error # null /\ ~sessions[id].token

\* the part that the registry keeps: the validation status comes with the
\* token, a completed session has its token, a session in error has a message
TokenWithStatus ==
    \A id \in DOMAIN sessions :
        /\ sessions[id].tokenStatus # null <=> sessions[id].token
        /\ sessions[id].status = "completed" => sessions[id].token
        /\ sessions[id].status = "error" => sessions[id].error # null
        /\ sessions[id].token => sessions[id].status \in {"completed", "error"}

========================================================================
